---- MODULE Spec2Model ----
(***************************************************************************)
(* extrachat: the MCP tool-invocation subsystem of the chat client.        *)
(*                                                                         *)
(* Part I   - the conversation turn: ChatBot.sendMessage, callAnthropic    *)
(*            and the recursive handleAnthropicToolUse loop, with          *)
(*            invokeMCPTool routing through the tool catalog and the       *)
(*            client registry (specification SpecTurn).                    *)
(* Part II  - one transport client (StdioClient, WebSocketClient or        *)
(*            HTTPClient) driven by concurrent callers of Initialize,      *)
(*            ListTools, CallTool and Close (specification SpecRpc).       *)
(* Part III - the client registry used by arbitrary callers               *)
(*            (specification SpecReg), and startup and shutdown of the     *)
(*            program: initializeMCP, /mcp-reload and the way out of Run   *)
(*            (specification SpecRun).                                     *)
(*                                                                         *)
(* The session store (saveSession, loadSession, the background save that   *)
(* sendMessage starts, /new-session and the way out of Run) is part of     *)
(* Part I.                                                                 *)
(*                                                                         *)
(* Log lines, traces and metric values are not                             *)
(* modelled.  The model backend and the tool servers are external: their   *)
(* answers are chosen nondeterministically from small sets.                *)
(***************************************************************************)
EXTENDS Integers, Sequences, FiniteSets, Bags, TLC

\* ------------------------------------------------------------------------
\* Bounds of the exploration
\* ------------------------------------------------------------------------

\* sendMessage calls explored in one run of the chat client
MaxTurns == 2

\* tool rounds explored inside one turn (the code itself has no limit)
MaxRounds == 2

\* a stand-in for the "configured maximum number of tool rounds" of C4
RoundLimit == 1

\* sendRequest calls explored on one transport client
MaxCalls == 3

\* Close() calls made on one transport client
MaxCloses == 2

\* clients handed to Register by the callers of one registry
MaxClients == 3

\* configured tool servers, local and remote together
MaxServers == 2

VARIABLES
    \* ---- ChatBot fields
    session,        \* cb.session.Messages
    backend,        \* cb.session.Backend
    configBackend,  \* cb.config.Backend
    cache,          \* cb.cache: cache key -> response text
    apiKeySet,      \* os.Getenv("ANTHROPIC_API_KEY") != ""
    mcpTools,       \* cb.mcpTools: the tool catalog
    registry,       \* cb.mcpRegistry.clients: name -> client (its number)
    \* ---- the turn in progress (locals of sendMessage / callAnthropic /
    \*      handleAnthropicToolUse)
    pc,             \* where the turn is
    messages,       \* the `messages` parameter (mutated by the recursion)
    cacheKey,       \* sendMessage's cacheKey
    apiResp,        \* the response being handled
    idx,            \* position of the range loop over apiResp.Content
    toolResults,    \* the toolResults slice being built
    lastReq,        \* the body of the last request POSTed to the model
    turnOut,        \* what sendMessage returned
    \* ---- history of the turn in progress (observations, not program state)
    turns,          \* sendMessage calls so far
    turnMessages,   \* the conversation sendMessage handed to the backend
    responses,      \* model responses received in this turn, in order
    events,         \* "model" per model call, "tool" per invokeMCPTool call
    rounds,         \* completed tool rounds: assistant blocks, results, outcomes
    started,        \* tool_use ids whose invocation has started, this round
    toolOut,        \* what invokeMCPTool returned, this round, in order
    \* ---- one transport client and its callers
    kind,           \* "stdio" | "ws" | "http"
    reqID,          \* c.reqID
    mu,             \* c.mu: 0 when free, else the thread holding it
    closed,         \* c.closed
    issued,         \* ids sendRequest put into a JSONRPCRequest, in order
    inflight,       \* ids written and not yet answered
    calls,          \* sendRequest calls begun so far
    tpc,            \* per thread: where it is in sendRequest
    tmeth,          \* per thread: the JSON-RPC method of its call
    tid,            \* per thread: its local reqID
    tret,           \* per thread: what its last call returned
    tgot,           \* per thread: the response its last call read
    tafter,         \* per thread: its call began after a Close() had returned
    released,       \* times the pipes and process, or the socket, were released
    closeRet,       \* what the Close() calls returned, in order
    tcancel,        \* per thread: its ctx was cancelled while its call waited
    \* ---- the clients behind the registry, startup and shutdown
    clients,        \* every client constructed so far, by number
    regRet,         \* what the last ClientRegistry operation returned
    phase,          \* "startup" | "running" | "exited"
    servers,        \* cfg.MCPLocalServers followed by cfg.MCPRemoteServers
    sidx,           \* the next configured server initializeMCP will try
    attempted,      \* the configured servers initializeMCP has tried
    progRet,        \* what initializeMCP and Run returned
    refresh,        \* the refreshMCPTools call in progress, or the last one
    \* ---- the session store and the goroutines that save to it
    sid,            \* cb.session.ID: the second the session was created in
    gen,            \* how many sessions newSession has created
    db,             \* the rows of the messages table, a bag
    dbSessions,     \* the ids in the sessions table
    cbmu,           \* "free", or "saver" while a background save holds cb.mu
    spawned,        \* `go saveSession()` goroutines not yet past cb.mu.Lock()
    tx,             \* the transaction of the background save holding cb.mu
    cmdRet,         \* the error the last slash command returned, or "nil"
    \* ---- what a transport client holds of the operating system
    proc,           \* what the first Close() did, step by step
    drain,          \* the logStderr goroutine: "none" | "scan" | "log" | "done"
    broken,         \* the pipe or socket has failed: nothing more is read
    made            \* the NewStdioClient calls of startup and what they did

turnVars == <<session, backend, configBackend, cache, apiKeySet, mcpTools,
              registry, pc, messages, cacheKey, apiResp, idx, toolResults,
              lastReq, turnOut, turns, turnMessages, responses, events,
              rounds, started, toolOut>>

rpcVars == <<tgot, tafter, released, closeRet, tcancel,
             kind, reqID, mu, closed, issued, inflight, calls, tpc, tmeth,
             tid, tret>>

regVars == <<clients, regRet, phase, servers, sidx, attempted, progRet,
             refresh>>

dbVars == <<sid, gen, db, dbSessions, cbmu, spawned, tx, cmdRet>>

\* what a step that ends a turn leaves alone in the session store
dbRest == <<sid, gen, db, dbSessions, cbmu, tx, cmdRet>>

procVars == <<proc, drain, broken, made>>

vars == <<turnVars, rpcVars, regVars, dbVars, procVars>>

\* ========================================================================
\* Part I - the conversation turn
\* ========================================================================

BackendOllama == "ollama"

BackendAnthropic == "anthropic"

Backends == {BackendOllama, BackendAnthropic}

\* what the user types
Inputs == {"hi"}

\* session.Message{Role, Content}
Msg(role, content) == [role |-> role, content |-> content]

\* backend.AnthropicContent: one struct for text, tool_use and tool_result
Block(type, text, id, name, toolUseID, content, isError) ==
    [type |-> type, text |-> text, id |-> id, name |-> name,
     tool_use_id |-> toolUseID, content |-> content, is_error |-> isError]

TextBlock(t) == Block("text", t, "", "", "", <<>>, FALSE)

ToolUseBlock(id, name) == Block("tool_use", "", id, name, "", <<>>, FALSE)

\* backend.AnthropicMessage: Content is a string or a list of blocks
StrMessage(role, s) == [role |-> role, str |-> s, blocks |-> <<>>]

BlockMessage(role, bs) == [role |-> role, str |-> "", blocks |-> bs]

\* the conversion loop of callAnthropic / handleAnthropicToolUse
ToAnthropicMessages(msgs) ==
    [i \in 1..Len(msgs) |-> StrMessage(msgs[i].role, msgs[i].content)]

\* convertMCPToolsToAnthropic: name (description, schema) without the owner
convertMCPToolsToAnthropic(tools) ==
    [i \in 1..Len(tools) |-> [name |-> tools[i].name]]

\* a key that also hashes the backend selected when it is computed
GenerateCacheKeyPerBackend(msgs) ==
    <<backend>> \o [i \in 1..(2 * Len(msgs)) |->
                      IF i % 2 = 1 THEN msgs[(i + 1) \div 2].role
                                   ELSE msgs[i \div 2].content]

\* cache.GenerateCacheKey: the hash of role, content, role, content, ...
GenerateCacheKey(msgs) ==
    [i \in 1..(2 * Len(msgs)) |->
        IF i % 2 = 1 THEN msgs[(i + 1) \div 2].role
                     ELSE msgs[i \div 2].content]

\* a lookup that never finds anything
checkCacheMiss(key) == FALSE

\* checkCache
checkCache(key) == key \in DOMAIN cache

\* storeCache
storeCache(key, response) ==
    [k \in (DOMAIN cache) \cup {key} |->
        IF k = key THEN response ELSE cache[k]]

\* The answers the model backend may give: a stop reason and content blocks.
Contents ==
    { <<>>,
      <<TextBlock("answer")>>,
      <<TextBlock("answer"), ToolUseBlock("tu1", "search")>>,
      <<ToolUseBlock("tu1", "search"), ToolUseBlock("tu2", "lookup"),
        ToolUseBlock("tu3", "calc")>> }

Responses == [stop : {"tool_use", "end_turn"}, content : Contents]

NoResponse == [stop |-> "", content |-> <<>>]

\* indices of the tool_use blocks of a content list
ToolUseIdx(content) == {i \in DOMAIN content : content[i].type = "tool_use"}

\* indices of the text blocks of a content list
TextIdx(content) == {i \in DOMAIN content : content[i].type = "text"}

Min(S) == CHOOSE x \in S : \A y \in S : x <= y

\* the tool_use ids of a content list, in emission order
RECURSIVE ToolUseIds(_)
ToolUseIds(content) ==
    IF content = <<>> THEN <<>>
    ELSE IF Head(content).type = "tool_use"
         THEN <<Head(content).id>> \o ToolUseIds(Tail(content))
         ELSE ToolUseIds(Tail(content))

\* invokeMCPTool, first half: the first catalog entry with this name (0: none)
\* a lookup that lets the last matching entry win
LastMatch(toolName) ==
    LET I == {i \in DOMAIN mcpTools : mcpTools[i].name = toolName}
    IN  IF I = {} THEN 0 ELSE CHOOSE i \in I : \A j \in I : j <= i

FirstMatch(toolName) ==
    LET I == {i \in DOMAIN mcpTools : mcpTools[i].name = toolName}
    IN  IF I = {} THEN 0 ELSE Min(I)

\* invokeMCPTool's results: a value or an error
ToolOk(toolName) == [ok |-> TRUE, val |-> <<"result", toolName>>]

ToolErr(e) == [ok |-> FALSE, val |-> e]

\* json.Marshal(result) and fmt.Sprintf("Error: %v", err)
MarshalResult(val) == <<"json">> \o val

ErrorText(e) == <<"Error">> \o e

\* a plausible slip: the error text is sent without the IsError flag
ToolResultForUnflagged(block, out) ==
    IF out.ok
    THEN Block("tool_result", "", "", "", block.id, MarshalResult(out.val), FALSE)
    ELSE Block("tool_result", "", "", "", block.id, ErrorText(out.val), FALSE)

\* a plausible slip: the result is keyed by the tool's name, not the block's id
ToolResultForByName(block, out) ==
    IF out.ok
    THEN Block("tool_result", "", "", "", block.name, MarshalResult(out.val), FALSE)
    ELSE Block("tool_result", "", "", "", block.name, ErrorText(out.val), TRUE)

\* the tool_result handleAnthropicToolUse builds for one tool_use block
ToolResultFor(block, out) ==
    IF out.ok
    THEN Block("tool_result", "", "", "", block.id, MarshalResult(out.val), FALSE)
    ELSE Block("tool_result", "", "", "", block.id, ErrorText(out.val), TRUE)

NoOut == [kind |-> "none", text |-> "", err |-> "", cached |-> FALSE]

OkOut(text, cached) == [kind |-> "ok", text |-> text, err |-> "", cached |-> cached]

ErrOut(e) == [kind |-> "err", text |-> "", err |-> e, cached |-> FALSE]

NoReq == [messages |-> <<>>, tools |-> <<>>]

\* the catalog and registry after startup with two healthy servers
StartupTools ==
    << [name |-> "search", server |-> "srvA"],
       [name |-> "calc", server |-> "srvB"] >>

StartupRegistry == [n \in {"srvA", "srvB"} |-> IF n = "srvA" THEN 1 ELSE 2]

\* a constructor whose client reports a name other than the one given
ClientShortName(name, transport, closeFails) ==
    [name |-> "short", transport |-> transport, closeFails |-> closeFails,
     registered |-> FALSE, closedBy |-> {},
     inits |-> 0, initOk |-> FALSE, used |-> {}, early |-> FALSE]

\* one constructed client: the name it was built with, its transport,
\* whether its Close() returns an error, who has called Close() on it, and
\* the RPCs issued on it: the initialize calls and whether one succeeded,
\* the other methods, and whether one of those came before that success
Client(name, transport, closeFails) ==
    [name |-> name, transport |-> transport, closeFails |-> closeFails,
     registered |-> FALSE, closedBy |-> {},
     inits |-> 0, initOk |-> FALSE, used |-> {}, early |-> FALSE]

\* one configured server and what happens when startup reaches it
Server(name, transport, outcome) ==
    [name |-> name, transport |-> transport, outcome |-> outcome]

NoRegRet == [op |-> "none"]

\* no refreshMCPTools call yet
NoRefresh ==
    [state |-> "idle", by |-> "", todo |-> <<>>, prev |-> <<>>, asked |-> <<>>,
     ret |-> "none"]

\* client c after a successful Initialize and its registration
Usable(c) == [c EXCEPT !.registered = TRUE, !.inits = 1, !.initOk = TRUE]

\* the clients, configuration and progress after that same startup
StartupClients ==
    << Usable(Client("srvA", "stdio", FALSE)),
       Usable(Client("srvB", "stdio", FALSE)) >>

StartupServers ==
    << Server("srvA", "stdio", "ok"), Server("srvB", "stdio", "ok") >>

InitRegVars ==
    /\ clients = StartupClients
    /\ regRet = NoRegRet
    /\ phase = "running"
    /\ servers = StartupServers
    /\ sidx = 3
    /\ attempted = {1, 2}
    /\ progRet = [startup |-> "nil", run |-> "none"]
    /\ refresh = NoRefresh

\* the ChatBot that NewChatBot returns, before any turn
NoTx == [stage |-> "none", sid |-> 0, rows |-> EmptyBag]

\* Message.Timestamp is time.Now() when the message is appended: later
\* sessions and later messages have later timestamps
TsBase == 100

\* the rows saveSession inserts for the messages of the session: one
\* INSERT INTO messages per message, the row id is AUTOINCREMENT
Rows(id, g, msgs) ==
    LET R == {[sid |-> id, role |-> msgs[i].role, content |-> msgs[i].content,
               ts |-> g * TsBase + i] : i \in DOMAIN msgs}
    IN  [r \in R |-> 1]

Repeat(x, n) == [i \in 1..n |-> x]

\* SELECT role, content, timestamp ... ORDER BY timestamp
RECURSIVE OrderByTimestamp(_, _)
OrderByTimestamp(S, table) ==
    IF S = {}
    THEN <<>>
    ELSE LET r == CHOOSE q \in S : \A o \in S : q.ts <= o.ts
         IN  Repeat(Msg(r.role, r.content), CopiesIn(r, table))
                 \o OrderByTimestamp(S \ {r}, table)

\* ChatBot.loadSession
loadSession(sessionID) ==
    IF sessionID \notin dbSessions
    THEN [err |-> "session_not_found", messages |-> <<>>]
    ELSE [err |-> "nil",
          messages |-> OrderByTimestamp({r \in BagToSet(db) : r.sid = sessionID}, db)]

\* ChatBot.saveSession called by the main goroutine: it waits for cb.mu,
\* then either fails (Begin, the sessions row, Commit) and writes nothing,
\* or inserts the sessions row and one messages row per message
saveSession(ok) ==
    /\ cbmu = "free"
    /\ IF ok
       THEN /\ db' = db (+) Rows(sid, gen, session)
            /\ dbSessions' = dbSessions \cup {sid}
       ELSE UNCHANGED <<db, dbSessions>>

InitDbVars ==
    /\ sid = 1
    /\ gen = 1
    /\ db = EmptyBag
    /\ dbSessions = {}
    /\ cbmu = "free"
    /\ spawned = 0
    /\ tx = NoTx
    /\ cmdRet = "nil"

InitTurnLocals ==
    /\ InitDbVars
    /\ session = <<>>
    /\ configBackend \in Backends
    /\ backend = configBackend
    /\ cache = <<>>
    /\ apiKeySet \in BOOLEAN
    /\ pc = "idle"
    /\ messages = <<>>
    /\ cacheKey = <<>>
    /\ apiResp = NoResponse
    /\ idx = 0
    /\ toolResults = <<>>
    /\ lastReq = NoReq
    /\ turnOut = NoOut
    /\ turns = 0
    /\ turnMessages = <<>>
    /\ responses = <<>>
    /\ events = <<>>
    /\ rounds = <<>>
    /\ started = <<>>
    /\ toolOut = <<>>

InitTurnVars ==
    /\ InitTurnLocals
    /\ mcpTools = StartupTools
    /\ registry = StartupRegistry

\* a thread that has no call result yet, and no response read yet
NoRet ==
    [status |-> "none", err |-> "", etype |-> "", text |-> <<>>,
     req |-> 0, resp |-> 0, val |-> ""]

NoReply == [shape |-> "none", id |-> 0, code |-> 0]

InitRpcVars ==
    /\ kind \in {"stdio", "ws", "http"}
    /\ reqID = 0
    /\ mu = 0
    /\ closed = FALSE
    /\ issued = <<>>
    /\ inflight = {}
    /\ calls = 0
    /\ tpc = [t \in {1, 2} |-> "idle"]
    /\ tmeth = [t \in {1, 2} |-> ""]
    /\ tid = [t \in {1, 2} |-> 0]
    /\ tret = [t \in {1, 2} |-> NoRet]
    /\ tgot = [t \in {1, 2} |-> NoReply]
    /\ tafter = [t \in {1, 2} |-> FALSE]
    /\ released = 0
    /\ closeRet = <<>>
    /\ tcancel = [t \in {1, 2} |-> FALSE]
    /\ proc = <<>>
    /\ drain = IF kind = "stdio" THEN "scan" ELSE "none"
    /\ broken = FALSE
    /\ made = <<>>

\* what a turn leaves alone
FrameChatBot == UNCHANGED <<backend, configBackend, apiKeySet, mcpTools, registry>>

\* the end of sendMessage's success path: the assistant message is appended
\* under cb.mu and `go func() { cb.saveSession() }()` is started; an error
\* return starts nothing and takes no lock
SpawnSave ==
    IF turnOut'.kind = "ok"
    THEN /\ cbmu = "free"
         /\ spawned' = spawned + 1
    ELSE UNCHANGED spawned

\* a success path that stores the working copy of the conversation, with
\* the placeholders of the tool rounds, in the session
FinishTurnStoresRounds(text) ==
    /\ cache' = storeCache(cacheKey, text)
    /\ session' = Append(messages, Msg("assistant", text))
    /\ turnOut' = OkOut(text, FALSE)
    /\ pc' = "idle"

\* sendMessage's success path: storeCache, append the assistant message
FinishTurn(text) ==
    /\ cache' = storeCache(cacheKey, text)
    /\ session' = Append(session, Msg("assistant", text))
    /\ turnOut' = OkOut(text, FALSE)
    /\ pc' = "idle"

\* sendMessage is running: between the user message and its return
InTurn == pc \in {"plain", "await", "tools", "followup"}

\* a failure that takes the program down instead of being returned
FailTurnCrash(e) ==
    /\ turnOut' = ErrOut(e)
    /\ pc' = "crashed"
    /\ UNCHANGED <<cache, session>>

\* a plausible slip: the error is not checked, so the empty response is
\* cached and appended like an answer
FailTurnUnchecked(e) ==
    /\ turnOut' = ErrOut(e)
    /\ pc' = "idle"
    /\ cache' = storeCache(cacheKey, "")
    /\ session' = Append(session, Msg("assistant", ""))

\* sendMessage's `if err != nil { return "", err }`
FailTurn(e) ==
    /\ turnOut' = ErrOut(e)
    /\ pc' = "idle"
    /\ UNCHANGED <<cache, session>>

\* a plausible slip: a response without a text block yields "" and no error
ReturnTextOrEmpty(content, emptyErr) ==
    IF TextIdx(content) # {}
    THEN FinishTurn(content[Min(TextIdx(content))].text)
    ELSE FinishTurn("")

\* the `for _, content := range ... if content.Type == "text"` tail of
\* callAnthropic and handleAnthropicToolUse
ReturnText(content, emptyErr) ==
    IF TextIdx(content) # {}
    THEN FinishTurn(content[Min(TextIdx(content))].text)
    ELSE FailTurn(emptyErr)

\* ChatBot.sendMessage up to the backend call
SendMessage(userMessage) ==
    /\ pc = "idle"
    /\ phase = "running"
    /\ cbmu = "free"
    /\ turns < MaxTurns
    /\ turns' = turns + 1
    /\ LET msgs == Append(session, Msg("user", userMessage))
           key  == GenerateCacheKey(msgs)
       IN  /\ turnMessages' = msgs
           /\ messages' = msgs
           /\ cacheKey' = key
           /\ responses' = <<>>
           /\ rounds' = <<>>
           /\ started' = <<>>
           /\ toolOut' = <<>>
           /\ apiResp' = NoResponse
           /\ idx' = 0
           /\ toolResults' = <<>>
           /\ IF checkCache(key)
              THEN /\ session' = Append(msgs, Msg("assistant", cache[key]))
                   /\ turnOut' = OkOut(cache[key], TRUE)
                   /\ pc' = "idle"
                   /\ events' = <<>>
                   /\ lastReq' = NoReq
                   /\ UNCHANGED cache
              ELSE /\ session' = msgs
                   /\ UNCHANGED cache
                   /\ IF backend = BackendAnthropic
                      THEN IF apiKeySet
                           THEN /\ lastReq' = [messages |-> ToAnthropicMessages(msgs),
                                               tools |-> convertMCPToolsToAnthropic(mcpTools)]
                                /\ events' = <<"model">>
                                /\ turnOut' = NoOut
                                /\ pc' = "await"
                           ELSE /\ lastReq' = NoReq
                                /\ events' = <<>>
                                /\ turnOut' = ErrOut("api_key_not_set")
                                /\ pc' = "idle"
                      ELSE /\ lastReq' = [messages |-> ToAnthropicMessages(msgs),
                                          tools |-> <<>>]
                           /\ events' = <<"model">>
                           /\ turnOut' = NoOut
                           /\ pc' = "plain"
    /\ FrameChatBot
    /\ UNCHANGED <<rpcVars, regVars, dbVars, procVars>>

\* a plausible slip: only the first response of a turn may start tool use
StopsForToolUseFirstOnly(resp) == resp.stop = "tool_use" /\ rounds = <<>>

\* `apiResp.StopReason == "tool_use"` / `followUpResp.StopReason == "tool_use"`
StopsForToolUse(resp) == resp.stop = "tool_use"

\* the backends without tool support (callOllama, callGrok, callOpenAI):
\* one call, its text or its error
PlainResponds ==
    /\ pc = "plain"
    /\ \/ FailTurn("model_call_failed")
       \/ FinishTurn("plain answer")
    /\ UNCHANGED <<messages, cacheKey, apiResp, idx, toolResults, lastReq, turns,
                   turnMessages, responses, events, rounds, started, toolOut>>
    /\ FrameChatBot
    /\ UNCHANGED <<rpcVars, regVars, dbRest, procVars>>
    /\ SpawnSave

\* entering handleAnthropicToolUse with a response
EnterToolUse(resp) ==
    /\ apiResp' = resp
    /\ idx' = 1
    /\ toolResults' = <<>>
    /\ started' = <<>>
    /\ toolOut' = <<>>
    /\ pc' = "tools"
    /\ UNCHANGED <<cache, session, turnOut>>

\* callAnthropic from the answer of the first POST on: a transport, status
\* or decoding failure, or a decoded response
ModelResponds ==
    /\ pc = "await"
    /\ \/ /\ FailTurn("model_call_failed")
          /\ UNCHANGED <<apiResp, idx, toolResults, started, toolOut, responses>>
       \/ \E resp \in Responses :
            /\ responses' = Append(responses, resp)
            /\ IF StopsForToolUse(resp)
               THEN EnterToolUse(resp)
               ELSE /\ ReturnText(resp.content, "empty_response")
                    /\ UNCHANGED <<apiResp, idx, toolResults, started, toolOut>>
    /\ UNCHANGED <<messages, cacheKey, lastReq, turns, turnMessages, events, rounds>>
    /\ FrameChatBot
    /\ UNCHANGED <<rpcVars, regVars, dbRest, procVars>>
    /\ SpawnSave

\* invokeMCPTool up to the client's CallTool: the lookup errors
LookupError(toolName) ==
    IF FirstMatch(toolName) = 0
    THEN <<"tool_not_found", toolName>>
    ELSE IF mcpTools[FirstMatch(toolName)].server \notin DOMAIN registry
         THEN <<"server_not_found", mcpTools[FirstMatch(toolName)].server, toolName>>
         ELSE <<>>

\* one iteration of `for _, content := range apiResp.Content`, up to the
\* point where invokeMCPTool either fails its lookup or blocks in CallTool
ProcessBlock ==
    /\ pc = "tools"
    /\ idx <= Len(apiResp.content)
    /\ LET block == apiResp.content[idx]
       IN  IF block.type # "tool_use"
           THEN /\ idx' = idx + 1
                /\ UNCHANGED <<pc, toolResults, events, started, toolOut>>
           ELSE /\ events' = Append(events, "tool")
                /\ started' = Append(started, block.id)
                /\ IF LookupError(block.name) # <<>>
                   THEN /\ toolOut' = Append(toolOut, ToolErr(LookupError(block.name)))
                        /\ toolResults' = Append(toolResults,
                               ToolResultFor(block, ToolErr(LookupError(block.name))))
                        /\ idx' = idx + 1
                        /\ UNCHANGED pc
                   ELSE /\ pc' = "toolcall"
                        /\ UNCHANGED <<idx, toolResults, toolOut>>
    /\ UNCHANGED <<session, cache, messages, cacheKey, apiResp, lastReq, turnOut,
                   turns, turnMessages, responses, rounds>>
    /\ FrameChatBot
    /\ UNCHANGED <<rpcVars, regVars, dbVars, procVars>>

\* the owning client's CallTool returns: a result, or an error that
\* invokeMCPTool wraps; the loop appends the tool_result and moves on
ToolReturns ==
    /\ pc = "toolcall"
    /\ LET block == apiResp.content[idx]
       IN  \E out \in {ToolOk(block.name),
                       ToolErr(<<"call_failed", block.name>>)} :
             /\ toolOut' = Append(toolOut, out)
             /\ toolResults' = Append(toolResults, ToolResultFor(block, out))
    /\ idx' = idx + 1
    /\ pc' = "tools"
    /\ UNCHANGED <<session, cache, messages, cacheKey, apiResp, lastReq, turnOut,
                   turns, turnMessages, responses, events, rounds, started>>
    /\ FrameChatBot
    /\ UNCHANGED <<rpcVars, regVars, dbVars, procVars>>

\* the follow-up request body: the converted messages, the assistant's
\* blocks and the tool results
FollowUpRequest ==
    [messages |-> ToAnthropicMessages(messages)
                    \o << BlockMessage("assistant", apiResp.content),
                          BlockMessage("user", toolResults) >>,
     tools |-> convertMCPToolsToAnthropic(mcpTools)]

\* after the loop: no tool_use block is an error, else POST the follow-up
EndRound ==
    /\ pc = "tools"
    /\ idx > Len(apiResp.content)
    /\ IF toolResults = <<>>
       THEN /\ FailTurn("no_tool_use_blocks")
            /\ UNCHANGED <<lastReq, events, rounds, toolOut>>
       ELSE IF ~apiKeySet
            THEN /\ FailTurn("api_key_not_set")
                 /\ UNCHANGED <<lastReq, events, rounds, toolOut>>
            ELSE /\ lastReq' = FollowUpRequest
                 /\ events' = Append(events, "model")
                 /\ rounds' = Append(rounds, [assistant |-> apiResp.content,
                                              results |-> toolResults,
                                              outcomes |-> toolOut])
                 /\ toolOut' = <<>>
                 /\ pc' = "followup"
                 /\ UNCHANGED <<session, cache, turnOut>>
    /\ UNCHANGED <<messages, cacheKey, apiResp, idx, toolResults, turns,
                   turnMessages, responses, started>>
    /\ FrameChatBot
    /\ UNCHANGED <<rpcVars, regVars, dbRest, procVars>>
    /\ SpawnSave

\* the recursion of handleAnthropicToolUse: what it appends to `messages`
RecursionMessages ==
    messages \o << Msg("assistant", "[Tool use in progress]"),
                   Msg("user", "[Tool results]") >>

\* handleAnthropicToolUse from the answer of the follow-up POST on
FollowUpResponds ==
    /\ pc = "followup"
    /\ \/ /\ FailTurn("model_call_failed")
          /\ UNCHANGED <<apiResp, idx, toolResults, started, toolOut, responses,
                         messages>>
       \/ \E resp \in Responses :
            /\ StopsForToolUse(resp) => Len(rounds) < MaxRounds
            /\ responses' = Append(responses, resp)
            /\ IF StopsForToolUse(resp)
               THEN /\ messages' = RecursionMessages
                    /\ EnterToolUse(resp)
               ELSE /\ ReturnText(resp.content, "empty_response")
                    /\ UNCHANGED <<apiResp, idx, toolResults, started, toolOut,
                                   messages>>
    /\ UNCHANGED <<cacheKey, lastReq, turns, turnMessages, events, rounds>>
    /\ FrameChatBot
    /\ UNCHANGED <<rpcVars, regVars, dbRest, procVars>>
    /\ SpawnSave

\* handleCommand "/new-session", first half: cb.saveSession(), whose error
\* is logged only
NewSessionSave ==
    /\ pc = "idle"
    /\ phase = "running"
    /\ session # <<>>
    /\ \E ok \in BOOLEAN : saveSession(ok)
    /\ pc' = "newsession"
    /\ cmdRet' = "nil"
    /\ UNCHANGED <<session, backend, configBackend, cache, apiKeySet, mcpTools,
                   registry, messages, cacheKey, apiResp, idx, toolResults,
                   lastReq, turnOut, turns, turnMessages, responses, events,
                   rounds, started, toolOut>>
    /\ UNCHANGED <<sid, gen, cbmu, spawned, tx>>
    /\ UNCHANGED <<rpcVars, regVars, procVars>>

\* handleCommand "/new-session", second half: cb.session = cb.newSession(),
\* an assignment made without cb.mu.  The id is "session_<unix second>":
\* the second of the previous session, or a later one
NewSession ==
    /\ pc = "newsession"
    /\ session' = <<>>
    /\ backend' = configBackend
    /\ gen' = gen + 1
    /\ sid' \in {sid, sid + 1}
    /\ pc' = "idle"
    /\ UNCHANGED <<configBackend, cache, apiKeySet, mcpTools, registry,
                   messages, cacheKey, apiResp, idx, toolResults, lastReq,
                   turnOut, turns, turnMessages, responses, events, rounds,
                   started, toolOut>>
    /\ UNCHANGED <<db, dbSessions, cbmu, spawned, tx, cmdRet>>
    /\ UNCHANGED <<rpcVars, regVars, procVars>>

\* handleCommand "/switch <backend>"
Switch(b) ==
    /\ pc = "idle"
    /\ phase = "running"
    /\ cbmu = "free"
    /\ b # backend
    /\ backend' = b
    /\ cmdRet' = "nil"
    /\ UNCHANGED <<session, configBackend, cache, apiKeySet, mcpTools, registry,
                   pc, messages, cacheKey, apiResp, idx, toolResults, lastReq,
                   turnOut, turns, turnMessages, responses, events, rounds,
                   started, toolOut>>
    /\ UNCHANGED <<sid, gen, db, dbSessions, cbmu, spawned, tx>>
    /\ UNCHANGED <<rpcVars, regVars, procVars>>

\* handleCommand "/switch" with an unknown backend: the command returns an
\* error, which Run prints
SwitchFails ==
    /\ pc = "idle"
    /\ phase = "running"
    /\ cmdRet = "nil"
    /\ cmdRet' = "unknown_backend"
    /\ UNCHANGED <<turnVars, rpcVars, regVars, procVars>>
    /\ UNCHANGED <<sid, gen, db, dbSessions, cbmu, spawned, tx>>

\* the goroutine started by sendMessage enters saveSession: cb.mu.Lock(),
\* db.Begin(), INSERT OR REPLACE INTO sessions with cb.session.ID
SaverLock ==
    /\ phase = "running"
    /\ spawned > 0
    /\ cbmu = "free"
    /\ cbmu' = "saver"
    /\ spawned' = spawned - 1
    /\ tx' = [stage |-> "begun", sid |-> sid, rows |-> EmptyBag]
    /\ UNCHANGED <<sid, gen, db, dbSessions, cmdRet>>
    /\ UNCHANGED <<turnVars, rpcVars, regVars, procVars>>

\* ... `for _, msg := range cb.session.Messages`: one INSERT INTO messages
\* per message, with cb.session.ID as it is now
SaverInsert ==
    /\ phase = "running"
    /\ cbmu = "saver"
    /\ tx.stage = "begun"
    /\ tx' = [tx EXCEPT !.stage = "inserted", !.rows = Rows(sid, gen, session)]
    /\ UNCHANGED <<sid, gen, db, dbSessions, cbmu, spawned, cmdRet>>
    /\ UNCHANGED <<turnVars, rpcVars, regVars, procVars>>

\* ... tx.Commit(), or the deferred Rollback when it fails, and the deferred
\* cb.mu.Unlock()
SaverCommit ==
    /\ phase = "running"
    /\ cbmu = "saver"
    /\ tx.stage = "inserted"
    /\ \E ok \in BOOLEAN :
          IF ok
          THEN /\ db' = db (+) tx.rows
               /\ dbSessions' = dbSessions \cup {tx.sid}
          ELSE UNCHANGED <<db, dbSessions>>
    /\ cbmu' = "free"
    /\ tx' = NoTx
    /\ UNCHANGED <<sid, gen, spawned, cmdRet>>
    /\ UNCHANGED <<turnVars, rpcVars, regVars, procVars>>

\* Run leaves its loop on /quit, /exit or the end of the input, saves the
\* session and returns; the deferred call closes the database only
Quit ==
    /\ pc = "idle"
    /\ phase = "running"
    /\ refresh.state # "running"
    /\ \E saved \in BOOLEAN :
          /\ saveSession(saved)
          /\ progRet' = [progRet EXCEPT !.run = IF saved THEN "nil" ELSE "save_failed"]
    /\ phase' = "exited"
    /\ cmdRet' = "nil"
    /\ UNCHANGED <<clients, regRet, servers, sidx, attempted, refresh>>
    /\ UNCHANGED <<sid, gen, cbmu, spawned, tx>>
    /\ UNCHANGED <<turnVars, rpcVars, procVars>>

InitTurn == InitTurnVars /\ InitRpcVars /\ InitRegVars /\ kind = "stdio"

NextTurn ==
    \/ \E u \in Inputs : SendMessage(u)
    \/ PlainResponds
    \/ ModelResponds
    \/ ProcessBlock
    \/ ToolReturns
    \/ EndRound
    \/ FollowUpResponds
    \/ NewSessionSave
    \/ NewSession
    \/ \E b \in Backends : Switch(b)

SpecTurn == InitTurn /\ [][NextTurn]_vars

\* The session store under every interleaving of the main loop with the
\* background saves, on a backend without tool support
InitSession ==
    /\ InitTurn
    /\ configBackend # BackendAnthropic

NextSession ==
    \/ \E u \in Inputs : SendMessage(u)
    \/ PlainResponds
    \/ NewSessionSave
    \/ NewSession
    \/ SwitchFails
    \/ SaverLock
    \/ SaverInsert
    \/ SaverCommit
    \/ Quit

SpecSession == InitSession /\ [][NextSession]_vars

\* ========================================================================
\* Part II - one transport client and its concurrent callers
\* ========================================================================

Threads == {1, 2}

MethodInitialize == "initialize"

MethodListTools == "tools/list"

MethodCallTool == "tools/call"

Methods == {MethodInitialize, MethodListTools, MethodCallTool}

\* an increment that is lost once: the id 1 is handed out twice
AddInt32LostUpdate(x, d) ==
    LET s == IF x = 1 THEN x ELSE x + d
    IN  IF s > 2147483647 THEN ((s - 2147483647) - 2147483647) - 2 ELSE s

\* atomic.AddInt32: 32-bit two's complement addition
AddInt32(x, d) ==
    LET s == x + d
    IN  IF s > 2147483647 THEN ((s - 2147483647) - 2147483647) - 2 ELSE s

\* what a call returns: the decoded result or an error
RpcOk(req, resp, val) ==
    [status |-> "ok", err |-> "", etype |-> "", text |-> <<>>,
     req |-> req, resp |-> resp, val |-> val]

\* every error of sendRequest is built by fmt.Errorf from a format without
\* %w: its dynamic type is the same for all of them, only the text differs
RpcErr(req, e) ==
    [status |-> "err", err |-> e, etype |-> "fmt.Errorf", text |-> <<e>>,
     req |-> req, resp |-> 0, val |-> ""]

\* What the caller may read as "the response" to request id: the stream
\* ends or the status is not 200 ("eof"), bytes that are not JSON
\* ("garbage"), or a JSON-RPC response object.  The object carries an id of
\* the server's choosing (the request's, or that of an earlier or
\* unsolicited message), and an error member, a result member, or neither.
Replies(id) ==
    { [shape |-> "eof", id |-> 0, code |-> 0],
      [shape |-> "garbage", id |-> 0, code |-> 0] }
      \cup [shape : {"result"}, id : {id, id - 1}, code : {0}]
      \cup [shape : {"neither"}, id : {id}, code : {0}]
      \cup [shape : {"error"}, id : {id}, code : {-32601}]

\* bufio.Scanner stays at the end of its input, and a read error of the
\* socket is permanent: once the stream has ended or failed every later
\* read finds the same
Readable(id) ==
    IF broken THEN {[shape |-> "eof", id |-> 0, code |-> 0]} ELSE Replies(id)

\* a Close that leaves the subprocess unreaped when the kill fails
ReleaseNoReap(k, killed) ==
    IF k = "stdio"
    THEN <<"closed", "stdin.Close", "stdout.Close", "stderr.Close">>
            \o (IF killed THEN <<"Kill", "Wait">> ELSE <<"Kill failed">>)
    ELSE <<"closed", "CloseMessage", "conn.Close">>

\* the body of the first Close(): c.closed = true, then the three pipes,
\* then Process.Kill, whose error is logged, then cmd.Wait (StdioClient);
\* c.closed = true, the close message, conn.Close (WebSocketClient)
Release(k, killed) ==
    IF k = "stdio"
    THEN <<"closed", "stdin.Close", "stdout.Close", "stderr.Close">>
            \o <<IF killed THEN "Kill" ELSE "Kill failed">>
            \o <<"Wait">>
    ELSE <<"closed", "CloseMessage", "conn.Close">>

\* a read that treats the end of the stream as an empty success
HandleReplyEofOk(req, reply) ==
    IF reply.shape \in {"eof", "neither"} THEN RpcOk(req, reply.id, "zero")
    ELSE IF reply.shape = "garbage" THEN RpcErr(req, "unmarshal_failed")
    ELSE IF reply.shape = "error"
         THEN [RpcErr(req, "rpc_error") EXCEPT
                  !.text = <<"RPC error", reply.code, "message">>]
    ELSE RpcOk(req, reply.id, "result")

\* sendRequest from the read of the response on (all three transports):
\* read failure, json.Unmarshal failure, response.Error != nil, else the
\* result is re-marshalled into the caller's struct; response.ID is not read
HandleReply(req, reply) ==
    IF reply.shape = "eof" THEN RpcErr(req, "read_failed")
    ELSE IF reply.shape = "garbage" THEN RpcErr(req, "unmarshal_failed")
    ELSE IF reply.shape = "error"
         THEN [RpcErr(req, "rpc_error") EXCEPT
                  !.text = <<"RPC error", reply.code, "message">>]
    ELSE IF reply.shape = "result" THEN RpcOk(req, reply.id, "result")
    ELSE RpcOk(req, reply.id, "zero")

\* Initialize / ListTools / CallTool: each is one sendRequest with its method
CallMethod(t, m) ==
    /\ tpc[t] = "idle"
    /\ calls < MaxCalls
    /\ calls' = calls + 1
    /\ tmeth' = [tmeth EXCEPT ![t] = m]
    /\ tafter' = [tafter EXCEPT ![t] = closeRet # <<>>]
    /\ tpc' = [tpc EXCEPT ![t] = IF kind = "http" THEN "genid" ELSE "lock"]
    /\ tret' = [tret EXCEPT ![t] = NoRet]
    /\ tgot' = [tgot EXCEPT ![t] = NoReply]
    /\ tcancel' = [tcancel EXCEPT ![t] = FALSE]
    /\ UNCHANGED <<kind, reqID, mu, closed, issued, inflight, tid>>
    /\ UNCHANGED <<released, closeRet>>
    /\ UNCHANGED <<turnVars, regVars, dbVars, procVars>>

\* StdioClient.sendRequest / WebSocketClient.sendRequest from c.mu.Lock()
\* to the write of the request: the closed check, the id, the write
LockedSend(t) ==
    /\ kind # "http"
    /\ tpc[t] = "lock"
    /\ mu = 0
    /\ IF closed
       THEN /\ tret' = [tret EXCEPT ![t] = RpcErr(0, "client_closed")]
            /\ tpc' = [tpc EXCEPT ![t] = "idle"]
            /\ UNCHANGED <<reqID, mu, issued, inflight, tid, broken>>
       ELSE /\ reqID' = AddInt32(reqID, 1)
            /\ tid' = [tid EXCEPT ![t] = reqID']
            /\ issued' = Append(issued, reqID')
            /\ \/ /\ inflight' = inflight \cup {reqID'}
                  /\ mu' = t
                  /\ tpc' = [tpc EXCEPT ![t] = "read"]
                  /\ UNCHANGED <<tret, broken>>
               \/ /\ tret' = [tret EXCEPT ![t] = RpcErr(reqID', "write_failed")]
                  /\ tpc' = [tpc EXCEPT ![t] = "idle"]
                  /\ broken' = TRUE
                  /\ UNCHANGED <<mu, inflight>>
    /\ UNCHANGED <<kind, closed, calls, tmeth>>
    /\ UNCHANGED <<tgot, tafter, released, closeRet, tcancel>>
    /\ UNCHANGED <<turnVars, regVars, dbVars, proc, drain, made>>

\* a read after which the client reconnects: the failure is not kept
LockedRecvReconnects(t) ==
    /\ kind # "http"
    /\ tpc[t] = "read"
    /\ mu = t
    /\ \E reply \in Readable(tid[t]) :
          /\ tret' = [tret EXCEPT ![t] = HandleReply(tid[t], reply)]
          /\ tgot' = [tgot EXCEPT ![t] = reply]
          /\ broken' = FALSE
    /\ UNCHANGED <<tafter, released, closeRet, tcancel>>
    /\ inflight' = inflight \ {tid[t]}
    /\ mu' = 0
    /\ tpc' = [tpc EXCEPT ![t] = "idle"]
    /\ UNCHANGED <<kind, reqID, closed, issued, calls, tmeth, tid>>
    /\ UNCHANGED <<turnVars, regVars, dbVars, proc, drain, made>>

\* the rest of the locked sendRequest: the read of the next line or frame,
\* its decoding, and the deferred c.mu.Unlock()
LockedRecv(t) ==
    /\ kind # "http"
    /\ tpc[t] = "read"
    /\ mu = t
    /\ \E reply \in Readable(tid[t]) :
          /\ tret' = [tret EXCEPT ![t] = HandleReply(tid[t], reply)]
          /\ tgot' = [tgot EXCEPT ![t] = reply]
          /\ broken' = (broken \/ reply.shape = "eof")
    /\ UNCHANGED <<tafter, released, closeRet, tcancel>>
    /\ inflight' = inflight \ {tid[t]}
    /\ mu' = 0
    /\ tpc' = [tpc EXCEPT ![t] = "idle"]
    /\ UNCHANGED <<kind, reqID, closed, issued, calls, tmeth, tid>>
    /\ UNCHANGED <<turnVars, regVars, dbVars, proc, drain, made>>

\* HTTPClient.sendRequest: the id is taken first and put into the request,
\* with no lock held
HTTPGenID(t) ==
    /\ kind = "http"
    /\ tpc[t] = "genid"
    /\ reqID' = AddInt32(reqID, 1)
    /\ tid' = [tid EXCEPT ![t] = reqID']
    /\ issued' = Append(issued, reqID')
    /\ tpc' = [tpc EXCEPT ![t] = "post"]
    /\ UNCHANGED <<kind, mu, closed, inflight, calls, tmeth, tret>>
    /\ UNCHANGED <<tgot, tafter, released, closeRet, tcancel>>
    /\ UNCHANGED <<turnVars, regVars, dbVars, procVars>>

\* HTTPClient.sendRequest: httpClient.Do sends the POST, or fails to
HTTPPost(t) ==
    /\ kind = "http"
    /\ tpc[t] = "post"
    /\ \/ /\ inflight' = inflight \cup {tid[t]}
          /\ tpc' = [tpc EXCEPT ![t] = "read"]
          /\ UNCHANGED tret
       \/ /\ tret' = [tret EXCEPT ![t] = RpcErr(tid[t], "send_failed")]
          /\ tpc' = [tpc EXCEPT ![t] = "idle"]
          /\ UNCHANGED inflight
    /\ UNCHANGED <<kind, reqID, mu, closed, issued, calls, tmeth, tid>>
    /\ UNCHANGED <<tgot, tafter, released, closeRet, tcancel>>
    /\ UNCHANGED <<turnVars, regVars, dbVars, procVars>>

\* HTTPClient.sendRequest: the status check, the body, its decoding
HTTPRecv(t) ==
    /\ kind = "http"
    /\ tpc[t] = "read"
    /\ \E reply \in Replies(tid[t]) :
          /\ tret' = [tret EXCEPT ![t] = HandleReply(tid[t], reply)]
          /\ tgot' = [tgot EXCEPT ![t] = reply]
    /\ UNCHANGED <<tafter, released, closeRet, tcancel>>
    /\ inflight' = inflight \ {tid[t]}
    /\ tpc' = [tpc EXCEPT ![t] = "idle"]
    /\ UNCHANGED <<kind, reqID, mu, closed, issued, calls, tmeth, tid>>
    /\ UNCHANGED <<turnVars, regVars, dbVars, procVars>>

\* the caller's context is cancelled, or its deadline passes, while its call
\* waits for the response
Cancel(t) ==
    /\ tpc[t] = "read"
    /\ ~tcancel[t]
    /\ tcancel' = [tcancel EXCEPT ![t] = TRUE]
    /\ UNCHANGED <<kind, reqID, mu, closed, issued, inflight, calls, tpc, tmeth,
                   tid, tret, tgot, tafter, released, closeRet>>
    /\ UNCHANGED <<turnVars, regVars, dbVars, procVars>>

\* HTTPClient.sendRequest: the request was built with the caller's ctx, so
\* httpClient.Do (or the read of the body) returns the context's error
HTTPCancelled(t) ==
    /\ kind = "http"
    /\ tpc[t] = "read"
    /\ tcancel[t]
    /\ tret' = [tret EXCEPT ![t] = RpcErr(tid[t], "send_failed")]
    /\ inflight' = inflight \ {tid[t]}
    /\ tpc' = [tpc EXCEPT ![t] = "idle"]
    /\ UNCHANGED <<kind, reqID, mu, closed, issued, calls, tmeth, tid>>
    /\ UNCHANGED <<tgot, tafter, released, closeRet, tcancel>>
    /\ UNCHANGED <<turnVars, regVars, dbVars, procVars>>

\* a Close that does not wait for c.mu
CloseWithoutLock(t) ==
    /\ tpc[t] = "idle"
    /\ Len(closeRet) < MaxCloses
    /\ IF kind = "http" \/ closed
       THEN UNCHANGED <<closed, released, proc>>
       ELSE /\ closed' = TRUE
            /\ released' = released + 1
            /\ \E killed \in BOOLEAN : proc' = Release(kind, killed)
    /\ closeRet' = Append(closeRet, "nil")
    /\ UNCHANGED <<kind, reqID, mu, issued, inflight, calls, tpc, tmeth, tid, tret>>
    /\ UNCHANGED <<tgot, tafter, tcancel>>
    /\ UNCHANGED <<turnVars, regVars, dbVars, drain, broken, made>>

\* a Close without the c.closed check: every call releases again
CloseUnguarded(t) ==
    /\ tpc[t] = "idle"
    /\ Len(closeRet) < MaxCloses
    /\ kind # "http" => mu = 0
    /\ IF kind = "http"
       THEN UNCHANGED <<closed, released, proc>>
       ELSE /\ closed' = TRUE
            /\ released' = released + 1
            /\ \E killed \in BOOLEAN : proc' = Release(kind, killed)
    /\ closeRet' = Append(closeRet, "nil")
    /\ UNCHANGED <<kind, reqID, mu, issued, inflight, calls, tpc, tmeth, tid, tret>>
    /\ UNCHANGED <<tgot, tafter, tcancel>>
    /\ UNCHANGED <<turnVars, regVars, dbVars, drain, broken, made>>

\* Close.  StdioClient and WebSocketClient: under c.mu, return nil when
\* c.closed is set, else set it and release the pipes and the process (Kill,
\* Wait) or the socket; a failed Kill is logged and nil is returned.
\* HTTPClient.Close only logs and returns nil.
Close(t) ==
    /\ tpc[t] = "idle"
    /\ Len(closeRet) < MaxCloses
    /\ kind # "http" => mu = 0
    /\ IF kind = "http" \/ closed
       THEN UNCHANGED <<closed, released, proc>>
       ELSE /\ closed' = TRUE
            /\ released' = released + 1
            /\ \E killed \in BOOLEAN : proc' = Release(kind, killed)
    /\ closeRet' = Append(closeRet, "nil")
    /\ UNCHANGED <<kind, reqID, mu, issued, inflight, calls, tpc, tmeth, tid, tret>>
    /\ UNCHANGED <<tgot, tafter, tcancel>>
    /\ UNCHANGED <<turnVars, regVars, dbVars, drain, broken, made>>

\* a drain that takes the client's lock to log a line and keeps it
DrainLineLocked ==
    /\ drain = "scan"
    /\ proc = <<>>
    /\ mu = 0
    /\ mu' = 3
    /\ drain' = "log"
    /\ UNCHANGED <<tgot, tafter, released, closeRet, tcancel, kind, reqID,
                   closed, issued, inflight, calls, tpc, tmeth, tid, tret>>
    /\ UNCHANGED <<proc, broken, made>>
    /\ UNCHANGED <<turnVars, regVars, dbVars>>

\* logStderr: scanner.Scan() returns a line the subprocess wrote to its
\* diagnostic stream
DrainLine ==
    /\ drain = "scan"
    /\ proc = <<>>
    /\ drain' = "log"
    /\ UNCHANGED <<proc, broken, made>>
    /\ UNCHANGED <<turnVars, rpcVars, regVars, dbVars>>

\* logStderr: the line is handed to the logger and the loop scans again
DrainLogged ==
    /\ drain = "log"
    /\ drain' = "scan"
    /\ UNCHANGED <<proc, broken, made>>
    /\ UNCHANGED <<turnVars, rpcVars, regVars, dbVars>>

\* logStderr: the subprocess closes its diagnostic stream or exits, Scan
\* returns false and the goroutine ends
DrainEof ==
    /\ drain = "scan"
    /\ proc = <<>>
    /\ drain' = "done"
    /\ UNCHANGED <<proc, broken, made>>
    /\ UNCHANGED <<turnVars, rpcVars, regVars, dbVars>>

\* logStderr: Close() has closed c.stderr, the pending or next read fails,
\* Scan returns false and the goroutine ends
DrainClosed ==
    /\ drain = "scan"
    /\ proc # <<>>
    /\ drain' = "done"
    /\ UNCHANGED <<proc, broken, made>>
    /\ UNCHANGED <<turnVars, rpcVars, regVars, dbVars>>

InitRpc ==
    /\ InitRpcVars
    /\ InitRegVars
    /\ InitTurnVars
    /\ configBackend = BackendAnthropic
    /\ apiKeySet

NextRpc ==
    \/ \E t \in Threads, m \in Methods : CallMethod(t, m)
    \/ \E t \in Threads : LockedSend(t)
    \/ \E t \in Threads : LockedRecv(t)
    \/ \E t \in Threads : HTTPGenID(t)
    \/ \E t \in Threads : HTTPPost(t)
    \/ \E t \in Threads : HTTPRecv(t)
    \/ \E t \in Threads : Close(t)
    \/ \E t \in Threads : Cancel(t)
    \/ \E t \in Threads : HTTPCancelled(t)

SpecRpc == InitRpc /\ [][NextRpc]_vars

\* the program's own steps are taken: a call whose context error is ready
\* returns.  Nothing makes a server answer.
SpecRpcLive == SpecRpc /\ WF_vars(\E t \in Threads : HTTPCancelled(t))

\* A process-transport client with its callers and its stderr drain.  The
\* goroutine's own steps are taken; nothing makes the subprocess write,
\* answer or exit.
InitStdio ==
    /\ InitRpc
    /\ kind = "stdio"

NextStdio ==
    \/ \E t \in Threads, m \in Methods : CallMethod(t, m)
    \/ \E t \in Threads : LockedSend(t)
    \/ \E t \in Threads : LockedRecv(t)
    \/ \E t \in Threads : Close(t)
    \/ DrainLine
    \/ DrainLogged
    \/ DrainEof
    \/ DrainClosed

SpecStdio ==
    /\ InitStdio
    /\ [][NextStdio]_vars
    /\ WF_vars(DrainLogged)
    /\ WF_vars(DrainClosed)

\* ========================================================================
\* Part III - the client registry, startup and shutdown
\* ========================================================================

\* names clients are registered under
Names == {"a.py", "ws://b"}

\* the fields of ChatBot that no registry operation assigns
FrameTurnLocals ==
    UNCHANGED <<session, backend, configBackend, cache, apiKeySet, pc,
                messages, cacheKey, apiResp, idx, toolResults, lastReq,
                turnOut, turns, turnMessages, responses, events, rounds,
                started, toolOut>>

\* the orders in which a range over the map S may visit its keys
Orders(S) ==
    {f \in [1..Cardinality(S) -> S] : \A i, j \in DOMAIN f : i # j => f[i] # f[j]}

\* a map write that keeps the entry a name already has
MapSetKeepFirst(reg, name, id) ==
    [n \in DOMAIN reg \cup {name} |-> IF n \in DOMAIN reg THEN reg[n] ELSE id]

\* r.clients[name] = client
MapSet(reg, name, id) ==
    [n \in DOMAIN reg \cup {name} |-> IF n = name THEN id ELSE reg[n]]

\* NewClientRegistry: the empty map
NewClientRegistry == [n \in {} |-> 0]

\* client i after one more Close() call made by who
Closed(i, who) == [clients[i] EXCEPT !.closedBy = @ \cup {who}]

\* a Register that closes the client it replaces
RegisterClosingPrevious(name, closeFails) ==
    /\ Len(clients) < MaxClients
    /\ clients' = Append([i \in DOMAIN clients |->
                            IF name \in DOMAIN registry /\ registry[name] = i
                            THEN Closed(i, "register")
                            ELSE clients[i]],
                         [Client(name, "other", closeFails) EXCEPT !.registered = TRUE])
    /\ registry' = MapSet(registry, name, Len(clients) + 1)
    /\ regRet' = [op |-> "Register"]
    /\ UNCHANGED <<mcpTools, phase, servers, sidx, attempted, progRet, refresh>>
    /\ FrameTurnLocals
    /\ UNCHANGED <<rpcVars, dbVars, procVars>>

\* a caller builds a client and hands it to Register under name
Register(name, closeFails) ==
    /\ Len(clients) < MaxClients
    /\ clients' = Append(clients,
                     [Client(name, "other", closeFails) EXCEPT !.registered = TRUE])
    /\ registry' = MapSet(registry, name, Len(clients) + 1)
    /\ regRet' = [op |-> "Register"]
    /\ UNCHANGED <<mcpTools, phase, servers, sidx, attempted, progRet, refresh>>
    /\ FrameTurnLocals
    /\ UNCHANGED <<rpcVars, dbVars, procVars>>

\* Get: the client under name and whether there is one
Get(name) ==
    /\ regRet' = [op |-> "Get", name |-> name,
                  ok |-> name \in DOMAIN registry,
                  val |-> IF name \in DOMAIN registry THEN registry[name] ELSE 0]
    /\ UNCHANGED <<mcpTools, registry, clients, phase, servers, sidx, attempted,
                   progRet, refresh>>
    /\ FrameTurnLocals
    /\ UNCHANGED <<rpcVars, dbVars, procVars>>

\* All: the registered clients, in the order the map range yields them
All ==
    /\ \E order \in Orders(DOMAIN registry) :
          regRet' = [op |-> "All",
                     val |-> [i \in DOMAIN order |-> registry[order[i]]]]
    /\ UNCHANGED <<mcpTools, registry, clients, phase, servers, sidx, attempted,
                   progRet, refresh>>
    /\ FrameTurnLocals
    /\ UNCHANGED <<rpcVars, dbVars, procVars>>

\* Count: len(r.clients)
Count ==
    /\ regRet' = [op |-> "Count", val |-> Cardinality(DOMAIN registry)]
    /\ UNCHANGED <<mcpTools, registry, clients, phase, servers, sidx, attempted,
                   progRet, refresh>>
    /\ FrameTurnLocals
    /\ UNCHANGED <<rpcVars, dbVars, procVars>>

\* the names of order up to and including the first whose Close() fails
UpToFirstFailure(order) ==
    {order[i] : i \in {j \in DOMAIN order :
                          \A k \in 1..(j - 1) :
                              ~clients[registry[order[k]]].closeFails}}

\* firstErr: the first failing client in order, wrapped with its name
FirstErr(order) ==
    LET F == {i \in DOMAIN order : clients[registry[order[i]]].closeFails}
    IN  IF F = {} THEN <<"nil">>
        ELSE <<"failed to close client", order[Min(F)]>>

\* a closeAll that returns at the first Close() error
RegistryCloseShortCircuit ==
    /\ \E order \in Orders(DOMAIN registry) :
          /\ clients' = [i \in DOMAIN clients |->
                           IF \E n \in UpToFirstFailure(order) : registry[n] = i
                           THEN Closed(i, "registry")
                           ELSE clients[i]]
          /\ regRet' = [op |-> "Close", order |-> order, val |-> FirstErr(order)]
    /\ UNCHANGED <<mcpTools, registry, phase, servers, sidx, attempted, progRet,
                   refresh>>
    /\ FrameTurnLocals
    /\ UNCHANGED <<rpcVars, dbVars, procVars>>

\* ClientRegistry.Close: under r.mu, Close() on every client of the map in
\* range order, keeping the first error; the map itself is left as it is
RegistryClose ==
    /\ \E order \in Orders(DOMAIN registry) :
          /\ clients' = [i \in DOMAIN clients |->
                           IF \E n \in DOMAIN registry : registry[n] = i
                           THEN Closed(i, "registry")
                           ELSE clients[i]]
          /\ regRet' = [op |-> "Close", order |-> order, val |-> FirstErr(order)]
    /\ UNCHANGED <<mcpTools, registry, phase, servers, sidx, attempted, progRet,
                   refresh>>
    /\ FrameTurnLocals
    /\ UNCHANGED <<rpcVars, dbVars, procVars>>

\* a fresh registry with no client built yet, used by arbitrary callers
InitReg ==
    /\ InitTurnLocals
    /\ configBackend = BackendAnthropic
    /\ apiKeySet
    /\ InitRpcVars
    /\ kind = "stdio"
    /\ mcpTools = <<>>
    /\ registry = NewClientRegistry
    /\ clients = <<>>
    /\ regRet = NoRegRet
    /\ phase = "running"
    /\ servers = <<>>
    /\ sidx = 1
    /\ attempted = {}
    /\ progRet = [startup |-> "nil", run |-> "none"]
    /\ refresh = NoRefresh

NextReg ==
    \/ \E n \in Names, f \in BOOLEAN : Register(n, f)
    \/ \E n \in Names : Get(n)
    \/ All
    \/ Count
    \/ RegistryClose

SpecReg == InitReg /\ [][NextReg]_vars

\* ------------------------------------------------------------------------
\* startup (NewChatBot, initializeMCP) and the Run loop's way out
\* ------------------------------------------------------------------------

\* --mcp-local paths and --mcp-remote URLs
LocalServers == {"a.py"}

RemoteServers == {"ws://b", "http://c"}

\* NewStdioClient for a local path; for a URL, NewWebSocketClient when it
\* starts with ws:// or wss://, else NewHTTPClient
TransportOf(name) ==
    IF name \in LocalServers THEN "stdio"
    ELSE IF name = "ws://b" THEN "ws"
    ELSE "http"

\* what may happen when startup reaches a server: the constructor fails,
\* Initialize fails, or both succeed
Outcomes == {"construct_fails", "init_fails", "ok"}

\* the configurations: the local servers come first, then the remote ones
Configs ==
    UNION {
      {c \in [1..n -> [name : LocalServers \cup RemoteServers, outcome : Outcomes]] :
          \A i, j \in 1..n :
              (i < j /\ c[j].name \in LocalServers) => c[i].name \in LocalServers}
      : n \in 0..MaxServers }

\* the tools each server lists, with ServerName set to the client's name
ServerTools(name) ==
    IF name = "a.py" THEN << [name |-> "search", server |-> name] >>
    ELSE IF name = "ws://b" THEN << [name |-> "calc", server |-> name] >>
    ELSE << [name |-> "search", server |-> name],
            [name |-> "lookup", server |-> name] >>

\* refreshMCPTools: the tools of the clients of All(), in All()'s order,
\* skipping the clients whose ListTools fails
RECURSIVE RefreshedTools(_, _)
RefreshedTools(order, listed) ==
    IF order = <<>> THEN <<>>
    ELSE (IF Head(order) \in listed THEN ServerTools(Head(order)) ELSE <<>>)
           \o RefreshedTools(Tail(order), listed)

\* the steps of NewStdioClient that can fail: the three pipes, cmd.Start
FailSteps == {"stdin", "stdout", "stderr", "start"}

\* a NewStdioClient call that failed: what it had opened, what it closed
\* before returning the error; no client, no goroutine
Failed(name, failAt, opened, closedPipes) ==
    [name |-> name, failAt |-> failAt, opened |-> opened,
     closedPipes |-> closedPipes, started |-> FALSE, drain |-> FALSE,
     client |-> FALSE]

\* a constructor that forgets the second pipe when the third one fails
NewStdioClientLeaky(name, failAt) ==
    IF failAt = "stdin" THEN Failed(name, failAt, {}, {})
    ELSE IF failAt = "stdout" THEN Failed(name, failAt, {"stdin"}, {"stdin"})
    ELSE IF failAt = "stderr"
         THEN Failed(name, failAt, {"stdin", "stdout"}, {"stdin"})
    ELSE IF failAt = "start"
         THEN Failed(name, failAt, {"stdin", "stdout", "stderr"},
                     {"stdin", "stdout", "stderr"})
    ELSE [name |-> name, failAt |-> "none",
          opened |-> {"stdin", "stdout", "stderr"}, closedPipes |-> {},
          started |-> TRUE, drain |-> TRUE, client |-> TRUE]

\* NewStdioClient: StdinPipe, StdoutPipe, StderrPipe, cmd.Start, each
\* failure closing the pipes obtained so far and returning (nil, err); then
\* the client is built and `go client.logStderr()` started
NewStdioClient(name, failAt) ==
    IF failAt = "stdin" THEN Failed(name, failAt, {}, {})
    ELSE IF failAt = "stdout" THEN Failed(name, failAt, {"stdin"}, {"stdin"})
    ELSE IF failAt = "stderr"
         THEN Failed(name, failAt, {"stdin", "stdout"}, {"stdin", "stdout"})
    ELSE IF failAt = "start"
         THEN Failed(name, failAt, {"stdin", "stdout", "stderr"},
                     {"stdin", "stdout", "stderr"})
    ELSE [name |-> name, failAt |-> "none",
          opened |-> {"stdin", "stdout", "stderr"}, closedPipes |-> {},
          started |-> TRUE, drain |-> TRUE, client |-> TRUE]

\* initializeMCP builds the client of a local path with NewStdioClient
Construct(sv) ==
    IF TransportOf(sv.name) = "stdio"
    THEN IF sv.outcome = "construct_fails"
         THEN \E f \in FailSteps : made' = Append(made, NewStdioClient(sv.name, f))
         ELSE made' = Append(made, NewStdioClient(sv.name, "none"))
    ELSE UNCHANGED made

\* a startup that gives up at the first server that fails
InitializeServerAbort ==
    /\ phase = "startup"
    /\ sidx <= Len(servers)
    /\ LET sv == servers[sidx]
           c  == Client(sv.name, TransportOf(sv.name), FALSE)
       IN  IF sv.outcome = "ok"
           THEN /\ clients' = Append(clients, Usable(c))
                /\ registry' = MapSet(registry, sv.name, Len(clients) + 1)
                /\ sidx' = sidx + 1
           ELSE /\ UNCHANGED <<clients, registry>>
                /\ sidx' = Len(servers) + 1
    /\ attempted' = attempted \cup {sidx}
    /\ Construct(servers[sidx])
    /\ UNCHANGED <<mcpTools, regRet, phase, servers, progRet, refresh>>
    /\ FrameTurnLocals
    /\ UNCHANGED <<rpcVars, dbVars, proc, drain, broken>>

\* a startup that registers a client although its Initialize failed
InitializeServerKeepFailed ==
    /\ phase = "startup"
    /\ sidx <= Len(servers)
    /\ LET sv == servers[sidx]
           c  == Client(sv.name, TransportOf(sv.name), FALSE)
       IN  IF sv.outcome = "construct_fails"
           THEN UNCHANGED <<clients, registry>>
           ELSE /\ clients' = Append(clients,
                                 [Usable(c) EXCEPT !.initOk = sv.outcome = "ok"])
                /\ registry' = MapSet(registry, sv.name, Len(clients) + 1)
    /\ sidx' = sidx + 1
    /\ attempted' = attempted \cup {sidx}
    /\ Construct(servers[sidx])
    /\ UNCHANGED <<mcpTools, regRet, phase, servers, progRet, refresh>>
    /\ FrameTurnLocals
    /\ UNCHANGED <<rpcVars, dbVars, proc, drain, broken>>

\* initializeMCP, one pass of its loops: build the client (on failure skip
\* the server), Initialize it (on failure Close it and skip the server),
\* Register it under the path or URL
InitializeServer ==
    /\ phase = "startup"
    /\ sidx <= Len(servers)
    /\ LET sv == servers[sidx]
           c  == Client(sv.name, TransportOf(sv.name), FALSE)
       IN  IF sv.outcome = "construct_fails"
           THEN UNCHANGED <<clients, registry>>
           ELSE IF sv.outcome = "init_fails"
           THEN /\ clients' = Append(clients,
                                 [c EXCEPT !.inits = 1, !.closedBy = {"startup"}])
                /\ UNCHANGED registry
           ELSE /\ clients' = Append(clients, Usable(c))
                /\ registry' = MapSet(registry, sv.name, Len(clients) + 1)
    /\ sidx' = sidx + 1
    /\ attempted' = attempted \cup {sidx}
    /\ Construct(servers[sidx])
    /\ UNCHANGED <<mcpTools, regRet, phase, servers, progRet, refresh>>
    /\ FrameTurnLocals
    /\ UNCHANGED <<rpcVars, dbVars, proc, drain, broken>>

\* refreshMCPTools from its first line to its first ListTools: the catalog
\* is set to the empty list and the range over All() begins
BeginRefresh(by) ==
    /\ mcpTools' = <<>>
    /\ \E order \in Orders(DOMAIN registry) :
          refresh' = [state |-> "running", by |-> by, todo |-> order,
                      prev |-> mcpTools, asked |-> <<>>, ret |-> "none"]
    /\ regRet' = [op |-> "refresh"]

\* the end of initializeMCP's loops: it calls refreshMCPTools
FinishStartup ==
    /\ phase = "startup"
    /\ sidx > Len(servers)
    /\ refresh.state = "idle"
    /\ BeginRefresh("startup")
    /\ UNCHANGED <<registry, clients, phase, servers, sidx, attempted, progRet>>
    /\ FrameTurnLocals
    /\ UNCHANGED <<rpcVars, dbVars, procVars>>

\* handleCommand /mcp-reload: it calls refreshMCPTools
McpReload ==
    /\ phase = "running"
    /\ refresh.state # "running"
    /\ BeginRefresh("reload")
    /\ UNCHANGED <<registry, clients, phase, servers, sidx, attempted, progRet>>
    /\ FrameTurnLocals
    /\ UNCHANGED <<rpcVars, dbVars, procVars>>

\* client i after an RPC of method m other than initialize
Used(i, m) ==
    [clients[i] EXCEPT !.used = @ \cup {m},
                       !.early = @ \/ ~clients[i].initOk]

\* a refresh that stops at the first ListTools failure
ListToolsNextAbort ==
    /\ refresh.state = "running"
    /\ refresh.todo # <<>>
    /\ LET n == Head(refresh.todo)
       IN  /\ \E ok \in BOOLEAN :
                /\ mcpTools' = IF ok THEN mcpTools \o ServerTools(clients[registry[n]].name) ELSE mcpTools
                /\ refresh' = [refresh EXCEPT
                                 !.todo = IF ok THEN Tail(@) ELSE <<>>,
                                 !.asked = Append(@, [name |-> n, ok |-> ok])]
           /\ clients' = [clients EXCEPT ![registry[n]] = Used(registry[n], MethodListTools)]
    /\ UNCHANGED <<registry, regRet, phase, servers, sidx, attempted, progRet>>
    /\ FrameTurnLocals
    /\ UNCHANGED <<rpcVars, dbVars, procVars>>

\* refreshMCPTools, one pass of its loop: ListTools on the next client; on
\* an error the client is skipped, else its tools are appended to cb.mcpTools
ListToolsNext ==
    /\ refresh.state = "running"
    /\ refresh.todo # <<>>
    /\ LET n == Head(refresh.todo)
       IN  /\ \E ok \in BOOLEAN :
                /\ mcpTools' = IF ok THEN mcpTools \o ServerTools(clients[registry[n]].name) ELSE mcpTools
                /\ refresh' = [refresh EXCEPT
                                 !.todo = Tail(@),
                                 !.asked = Append(@, [name |-> n, ok |-> ok])]
           /\ clients' = [clients EXCEPT ![registry[n]] = Used(registry[n], MethodListTools)]
    /\ UNCHANGED <<registry, regRet, phase, servers, sidx, attempted, progRet>>
    /\ FrameTurnLocals
    /\ UNCHANGED <<rpcVars, dbVars, procVars>>

\* refreshMCPTools returns nil; at startup initializeMCP then returns nil
\* and NewChatBot returns the ChatBot
RefreshReturns ==
    /\ refresh.state = "running"
    /\ refresh.todo = <<>>
    /\ refresh' = [refresh EXCEPT !.state = "done", !.ret = "nil"]
    /\ IF refresh.by = "startup"
       THEN /\ progRet' = [progRet EXCEPT !.startup = "nil"]
            /\ phase' = "running"
       ELSE UNCHANGED <<progRet, phase>>
    /\ UNCHANGED <<mcpTools, registry, clients, regRet, servers, sidx, attempted>>
    /\ FrameTurnLocals
    /\ UNCHANGED <<rpcVars, dbVars, procVars>>

\* tool names a model may ask for
ToolNames == {"search", "calc", "nope"}

\* invokeMCPTool, whole: the lookup in the catalog and the registry, then
\* CallTool on the client found, whose result or wrapped error is returned
InvokeMCPTool(toolName) ==
    /\ phase = "running"
    /\ refresh.state # "running"
    /\ IF LookupError(toolName) # <<>>
       THEN /\ regRet' = [op |-> "invoke", tool |-> toolName, called |-> {},
                          val |-> ToolErr(LookupError(toolName))]
            /\ UNCHANGED clients
       ELSE LET i == registry[mcpTools[FirstMatch(toolName)].server]
            IN  /\ \E out \in {ToolOk(toolName), ToolErr(<<"call_failed", toolName>>)} :
                      regRet' = [op |-> "invoke", tool |-> toolName,
                                 called |-> {i}, val |-> out]
                /\ clients' = [clients EXCEPT ![i] = Used(i, MethodCallTool)]
    /\ UNCHANGED <<mcpTools, registry, phase, servers, sidx, attempted, progRet,
                   refresh>>
    /\ FrameTurnLocals
    /\ UNCHANGED <<rpcVars, dbVars, procVars>>

\* the program started with --mcp-enabled and some configuration
InitRun ==
    /\ InitTurnLocals
    /\ configBackend = BackendAnthropic
    /\ apiKeySet
    /\ InitRpcVars
    /\ kind = "stdio"
    /\ mcpTools = <<>>
    /\ registry = NewClientRegistry
    /\ clients = <<>>
    /\ regRet = NoRegRet
    /\ phase = "startup"
    /\ servers \in Configs
    /\ sidx = 1
    /\ attempted = {}
    /\ progRet = [startup |-> "none", run |-> "none"]
    /\ refresh = NoRefresh

NextRun ==
    \/ InitializeServer
    \/ FinishStartup
    \/ McpReload
    \/ ListToolsNext
    \/ RefreshReturns
    \/ \E n \in ToolNames : InvokeMCPTool(n)
    \/ Quit

SpecRun == InitRun /\ [][NextRun]_vars

\* ========================================================================
\* Claims
\* ========================================================================

LastResp == responses[Len(responses)]

\* the events of one kind, counted
RECURSIVE CountOf(_, _)
CountOf(seq, e) ==
    IF seq = <<>> THEN 0
    ELSE (IF Head(seq) = e THEN 1 ELSE 0) + CountOf(Tail(seq), e)

\* model call, tool invocation, model call, ..., model call: k tool invocations
Alternating(k) ==
    [i \in 1..(2 * k + 1) |-> IF i % 2 = 1 THEN "model" ELSE "tool"]

\* the responses of this turn that stopped for tool use
ToolUseResponses == {i \in DOMAIN responses : responses[i].stop = "tool_use"}

\* a turn on the tool-capable backend has returned
AnthropicTurnOver ==
    pc = "idle" /\ turnOut.kind # "none" /\ ~turnOut.cached /\ responses # <<>>

\* C1: a turn whose first response requests no tool use returns after exactly
\* one model call and no tool invocation; a turn in which the model asked for
\* exactly one tool call in each of k rounds and then gave a terminal text
\* response made k+1 model calls and k tool invocations, alternating, a model
\* call first and last.
C1_TurnCallCounts ==
    AnthropicTurnOver =>
        /\ ~(responses[1].stop = "tool_use" /\ ToolUseIdx(responses[1].content) # {})
              => events = <<"model">>
        /\ ( /\ turnOut.kind = "ok"
             /\ \A i \in ToolUseResponses :
                    Cardinality(ToolUseIdx(responses[i].content)) = 1 )
              => /\ Len(responses) = Cardinality(ToolUseResponses) + 1
                 /\ events = Alternating(Cardinality(ToolUseResponses))

\* C1 witness: a turn that answered after two rounds of one tool call each
C1_Witness ==
    /\ AnthropicTurnOver
    /\ turnOut.kind = "ok"
    /\ Len(rounds) = 2
    /\ \A i \in ToolUseResponses :
           Cardinality(ToolUseIdx(responses[i].content)) = 1
    /\ events = <<"model", "tool", "model", "tool", "model">>

\* a failed tool invocation became an error-flagged tool_result
FailureFlagged(results, outcomes) ==
    /\ Len(results) = Len(outcomes)
    /\ \A i \in DOMAIN outcomes :
          ~outcomes[i].ok =>
              /\ results[i].type = "tool_result"
              /\ results[i].is_error
              /\ results[i].content = ErrorText(outcomes[i].val)

\* the part of C2 that holds: every failure to serve a tool (unknown name,
\* unregistered owner, failed CallTool) becomes a tool_result with
\* isError = true, the remaining blocks are still processed, and the round is
\* resubmitted; no turn ends in the middle of a round that invoked a tool.
C2_ToolFailuresFedBack ==
    /\ pc \in {"tools", "toolcall"} => FailureFlagged(toolResults, toolOut)
    /\ \A k \in DOMAIN rounds :
          /\ FailureFlagged(rounds[k].results, rounds[k].outcomes)
          /\ Len(rounds[k].results) = Cardinality(ToolUseIdx(rounds[k].assistant))
    /\ pc = "idle" => toolOut = <<>>
    /\ (pc = "idle" /\ turnOut.kind = "err" /\ turnOut.err = "no_tool_use_blocks")
          => ToolUseIdx(apiResp.content) = {}

\* C2 as amended: C2_ToolFailuresFedBack, and a turn returns an error only
\* if a model call fails or the model's response is unusable (a tool_use stop
\* reason without a tool_use block, a final response without a text block).
C2_ToolFailuresNeverAbort ==
    /\ C2_ToolFailuresFedBack
    /\ turnOut.kind = "err" =>
          turnOut.err \in {"model_call_failed", "api_key_not_set",
                           "empty_response", "no_tool_use_blocks"}

\* C2 as stated: tool failures are fed back, and the turn returns an error
\* only if a model call fails.
C2_ErrorOnlyIfModelCallFails ==
    /\ C2_ToolFailuresFedBack
    /\ turnOut.kind = "err" =>
          turnOut.err \in {"model_call_failed", "api_key_not_set"}

\* C2 witness: a round with an unknown tool and a failed CallTool was
\* resubmitted to the model
C2_Witness ==
    /\ pc = "followup"
    /\ \E i, j \in DOMAIN rounds[1].outcomes :
          /\ rounds[1].outcomes[i] = ToolErr(<<"tool_not_found", "lookup">>)
          /\ rounds[1].outcomes[j] = ToolErr(<<"call_failed", "calc">>)
          /\ rounds[1].results[i].is_error
          /\ rounds[1].results[j].is_error

\* the assistant and user messages of the completed rounds, in order
RECURSIVE RoundMessages(_)
RoundMessages(rs) ==
    IF rs = <<>> THEN <<>>
    ELSE << BlockMessage("assistant", Head(rs).assistant),
            BlockMessage("user", Head(rs).results) >> \o RoundMessages(Tail(rs))

\* C3: every resubmission carries the full updated conversation: the original
\* messages, then for each completed round the model's tool_use message and
\* the tool_result message, with the unchanged tool catalog.
C3_FullConversationResubmitted ==
    pc = "followup" =>
        lastReq = [messages |-> ToAnthropicMessages(turnMessages)
                                   \o RoundMessages(rounds),
                   tools |-> convertMCPToolsToAnthropic(mcpTools)]

\* C4: a turn performs at most the configured maximum of tool rounds, and
\* fails with RecursionLimitExceeded when the model asks for more.
C4_LoopBounded ==
    \/ Len(rounds) <= RoundLimit
    \/ (pc = "idle" /\ turnOut = ErrOut("RecursionLimitExceeded"))

\* nothing was invoked or sent after the last response arrived
NothingAfterLastResp ==
    /\ events # <<>>
    /\ events[Len(events)] = "model"
    /\ CountOf(events, "model") = Len(responses)

\* C5 as stated: a response with no tool_use block, or whose stop reason is
\* not tool_use, ends the turn with the response's text as the answer (the
\* claim is read for responses that do carry a text block).
C5_TerminalAsClaimed ==
    ( /\ responses # <<>>
      /\ TextIdx(LastResp.content) # {}
      /\ (ToolUseIdx(LastResp.content) = {} \/ LastResp.stop # "tool_use") )
        => /\ (pc = "tools" \/ ~InTurn)
           /\ ~InTurn =>
                 turnOut = OkOut(LastResp.content[Min(TextIdx(LastResp.content))].text,
                                 FALSE)
           /\ NothingAfterLastResp

\* C5 as amended: a response whose stop reason is not tool_use ends the turn
\* at once, with its first text block as the answer, or with an error if it
\* has none; a response whose stop reason is tool_use but which has no
\* tool_use block fails the turn with an error; in both cases no tool is
\* invoked and no further model call is made.
C5_TerminalByStopReason ==
    responses # <<>> =>
        /\ LastResp.stop # "tool_use" =>
              /\ ~InTurn
              /\ NothingAfterLastResp
              /\ IF TextIdx(LastResp.content) # {}
                 THEN turnOut = OkOut(LastResp.content[Min(TextIdx(LastResp.content))].text,
                                      FALSE)
                 ELSE turnOut = ErrOut("empty_response")
        /\ (LastResp.stop = "tool_use" /\ ToolUseIdx(LastResp.content) = {}) =>
              /\ (pc = "tools" \/ ~InTurn)
              /\ ~InTurn => turnOut = ErrOut("no_tool_use_blocks")
              /\ NothingAfterLastResp

\* C5 witness: a tool_use stop reason over a text-only response ended the
\* turn with the error
C5_Witness ==
    /\ responses # <<>>
    /\ LastResp = [stop |-> "tool_use", content |-> <<TextBlock("answer")>>]
    /\ pc = "idle"
    /\ turnOut = ErrOut("no_tool_use_blocks")

\* s is a prefix of t
IsPrefix(s, t) == Len(s) <= Len(t) /\ \A i \in DOMAIN s : s[i] = t[i]

\* results and outcomes match the tool_use ids, one for one and in order
ResultsMatch(results, outcomes, ids) ==
    /\ Len(results) = Len(outcomes)
    /\ Len(results) <= Len(ids)
    /\ \A i \in DOMAIN results :
          /\ results[i].type = "tool_result"
          /\ results[i].tool_use_id = ids[i]
          /\ outcomes[i].ok =>
                /\ ~results[i].is_error
                /\ results[i].content = MarshalResult(outcomes[i].val)

\* C6: within a round the tool_use blocks are invoked one at a time in
\* emission order (the next starts only when the previous has returned);
\* the tool-result message holds exactly one tool_result per tool_use block,
\* in the same order, with that block's id, and a success carries the tool's
\* output with isError false.
C6_SequentialInOrder ==
    /\ pc \in {"tools", "toolcall"} =>
          /\ IsPrefix(started, ToolUseIds(apiResp.content))
          /\ Len(started) = Len(toolOut) + (IF pc = "toolcall" THEN 1 ELSE 0)
          /\ ResultsMatch(toolResults, toolOut, started)
    /\ \A k \in DOMAIN rounds :
          /\ Len(rounds[k].results) = Len(ToolUseIds(rounds[k].assistant))
          /\ ResultsMatch(rounds[k].results, rounds[k].outcomes,
                          ToolUseIds(rounds[k].assistant))

\* C6 witness: a round of three tool_use blocks, the first and the third
\* served, was resubmitted
C6_Witness ==
    /\ pc = "followup"
    /\ Len(rounds[1].results) = 3
    /\ rounds[1].outcomes[1].ok
    /\ rounds[1].outcomes[3].ok
    /\ rounds[1].results[3].tool_use_id = "tu3"

\* C7: a failed model call is fatal to the turn: sendMessage returns the
\* error, the session holds the conversation up to the user message and no
\* assistant message, the cache is not written, and no model call or tool
\* invocation follows in that turn.
C7_ModelFailureFatal ==
    [][ /\ ( /\ (InTurn \/ turns' # turns)
             /\ pc' = "idle"
             /\ turnOut'.kind = "err" )
            => /\ session' = turnMessages'
               /\ cache' = cache
               /\ (turns' = turns => events' = events)
        /\ (pc = "idle" /\ turns' = turns) => events' = events
      ]_vars

\* C7 witness: the follow-up call after a tool round failed
C7_Witness ==
    /\ pc = "idle"
    /\ turnOut = ErrOut("model_call_failed")
    /\ Len(rounds) = 1
    /\ session = turnMessages
    /\ cache = <<>>

\* s is strictly increasing
StrictlyIncreasing(s) == \A i, j \in DOMAIN s : i < j => s[i] < s[j]

\* C8: the ids of the requests a client issues are strictly increasing in
\* issue order, start at 1 for a fresh instance and are never reused, for
\* any interleaving of calls, failing and concurrent ones included.
C8_RequestIdsIncreasing ==
    /\ StrictlyIncreasing(issued)
    /\ issued # <<>> => issued[1] = 1
    /\ \A t \in Threads : tpc[t] \in {"post", "read"} =>
          \E i \in DOMAIN issued : issued[i] = tid[t]
    /\ \A t, u \in Threads :
          t # u /\ tpc[t] \in {"post", "read"} /\ tpc[u] \in {"post", "read"}
            => tid[t] # tid[u]

\* C8 happens: on the lock-free HTTP client three ids were taken, the third
\* by a call that failed while the call holding id 2 was still unsent
C8_Witness ==
    /\ kind = "http"
    /\ issued = <<1, 2, 3>>
    /\ \E t, u \in Threads :
          /\ t # u
          /\ tpc[t] = "post"
          /\ tid[t] = 2
          /\ tret[u].status = "err"
          /\ tret[u].req = 3

\* C9: on every transport at most one RPC of a client is in flight: request
\* n+1 is not sent before the response to request n was read or failed.
C9_OneInFlight == Cardinality(inflight) <= 1

\* C10: a call returns a successful result only from a response whose id
\* equals the id of the request it sent.
C10_CorrelatedById ==
    \A t \in Threads : tret[t].status = "ok" => tret[t].resp = tret[t].req

\* C11: a JSON-RPC error object in answer to tools/call makes CallTool fail
\* with an error of kind RPCError carrying the remote code, a kind that no
\* transport or protocol failure has.
C11_RpcErrorKind ==
    \A t \in Threads :
        (tmeth[t] = MethodCallTool /\ tgot[t].shape = "error") =>
            /\ tret[t].status = "err"
            /\ tret[t].etype = "RPCError"
            /\ RpcErr(0, "read_failed").etype # tret[t].etype
            /\ RpcErr(0, "unmarshal_failed").etype # tret[t].etype

\* C12: a parseable response with neither a result nor an error member makes
\* the call fail; it never returns success with a zero-valued result.
C12_NeitherIsProtocolError ==
    \A t \in Threads : tgot[t].shape = "neither" => tret[t].status = "err"

\* C13: on the process transport, end-of-stream while a request is
\* outstanding fails the pending call with a read error and releases the
\* client's lock, which is only ever held by a thread inside its call, so
\* that a later Close() can take it.
C13_EofFailsAndUnlocks ==
    kind = "stdio" =>
        /\ \A t \in Threads :
              tgot[t].shape = "eof" =>
                  /\ tret[t].status = "err"
                  /\ tret[t].err = "read_failed"
                  /\ tpc[t] = "idle"
                  /\ mu # t
        /\ \A t \in Threads : mu = t => tpc[t] = "read"

\* C13 happens: a call on the process transport met end-of-stream and a
\* Close() made after it has returned
C13_Witness ==
    /\ kind = "stdio"
    /\ \E t \in Threads : tgot[t].shape = "eof" /\ tret[t].status = "err"
    /\ mu = 0
    /\ closed
    /\ closeRet = <<"nil">>
    /\ released = 1

\* C14: for any number of Close() calls on one client the resource is
\* released exactly once, by the first call (the request transport holds
\* none), and every call returns no error.
C14_CloseIdempotent ==
    /\ released = (IF kind # "http" /\ closeRet # <<>> THEN 1 ELSE 0)
    /\ kind # "http" => (closed <=> closeRet # <<>>)
    /\ \A i \in DOMAIN closeRet : closeRet[i] = "nil"

\* C14 happens: Close() was called twice on a process or stream client
C14_Witness ==
    /\ kind \in {"stdio", "ws"}
    /\ Len(closeRet) = 2
    /\ released = 1

\* C15: once Close() has returned, every later Initialize, ListTools or
\* CallTool on that client fails and sends no request.
C15_NoUseAfterClose ==
    \A t \in Threads :
        tafter[t] =>
            /\ tpc[t] \notin {"post", "read"}
            /\ tret[t].status # "ok"

\* the clients that were passed to Register, and the names they went under
RegisteredIdx == {i \in DOMAIN clients : clients[i].registered}

RegisteredNames == {clients[i].name : i \in RegisteredIdx}

\* the last client that was registered under name n
LastRegistered(n) ==
    CHOOSE i \in RegisteredIdx :
        /\ clients[i].name = n
        /\ \A j \in RegisteredIdx : clients[j].name = n => j <= i

\* C16: Count() is the number of distinct names ever passed to Register, Get
\* returns the last client registered under the name, and the entries are
\* still there, with the now-closed clients, after Close().
C16_RegistryInvariant ==
    /\ DOMAIN registry = RegisteredNames
    /\ \A n \in RegisteredNames : registry[n] = LastRegistered(n)
    /\ regRet.op = "Count" => regRet.val = Cardinality(RegisteredNames)
    /\ regRet.op = "Get" =>
          /\ regRet.ok <=> regRet.name \in RegisteredNames
          /\ regRet.ok => regRet.val = LastRegistered(regRet.name)

\* C16 happens: a name was registered twice, the registry was closed, and a
\* Get of that name then returned the second client, closed
C16_Witness ==
    /\ regRet.op = "Get"
    /\ regRet.ok
    /\ regRet.val = 3
    /\ \E i \in 1..2 : clients[i].name = clients[3].name
    /\ "registry" \in clients[3].closedBy
    /\ Cardinality(DOMAIN registry) = 2

\* C17: closeAll calls Close() on every client of the registry even when some
\* of the calls fail, and returns the first error met, with the name of its
\* client, or no error when every Close() succeeded.
C17_CloseAllBestEffort ==
    regRet.op = "Close" =>
        /\ \A n \in DOMAIN registry : "registry" \in clients[registry[n]].closedBy
        /\ regRet.val = <<"nil">> <=>
              \A n \in DOMAIN registry : ~clients[registry[n]].closeFails
        /\ regRet.val # <<"nil">> =>
              \E i \in DOMAIN regRet.order :
                  /\ regRet.val = <<"failed to close client", regRet.order[i]>>
                  /\ clients[registry[regRet.order[i]]].closeFails
                  /\ \A k \in 1..(i - 1) :
                        ~clients[registry[regRet.order[k]]].closeFails

\* C17 happens: the first client closeAll visited failed to close and the
\* second one was closed all the same
C17_Witness ==
    /\ regRet.op = "Close"
    /\ Len(regRet.order) = 2
    /\ clients[registry[regRet.order[1]]].closeFails
    /\ regRet.val = <<"failed to close client", regRet.order[1]>>
    /\ "registry" \in clients[registry[regRet.order[2]]].closedBy

\* C18: when Run has returned, every client of the registry has been closed.
C18_AllClosedOnExit ==
    phase = "exited" =>
        \A n \in DOMAIN registry : clients[registry[n]].closedBy # {}

\* C19: Close() on a client is only ever called by the registry's closeAll.
C19_OnlyRegistryCloses ==
    \A i \in DOMAIN clients : clients[i].closedBy \subseteq {"registry"}

\* the names of the attempted servers whose constructor and Initialize both
\* succeeded
HealthyNames == {servers[i].name : i \in {j \in attempted : servers[j].outcome = "ok"}}

\* C20: startup skips exactly the servers whose construction or Initialize
\* fails, tries every configured server, ends without error, and leaves in the
\* registry exactly the servers that were built and initialized.
C20_StartupNeverAborts ==
    /\ attempted = 1..(sidx - 1)
    /\ DOMAIN registry = HealthyNames
    /\ \A n \in DOMAIN registry :
          /\ clients[registry[n]].name = n
          /\ clients[registry[n]].registered
    /\ phase # "startup" =>
          /\ attempted = DOMAIN servers
          /\ progRet.startup = "nil"

\* C20 happens: the first configured server failed, the second was still
\* tried and registered, and startup ended
C20_Witness ==
    /\ phase = "running"
    /\ Len(servers) = 2
    /\ servers[1].outcome # "ok"
    /\ servers[2].outcome = "ok"
    /\ DOMAIN registry = {servers[2].name}
    /\ progRet.startup = "nil"

\* the names asked by the last refresh, in order, and those that answered
AskedNames == [i \in DOMAIN refresh.asked |-> refresh.asked[i].name]

ListedNames == {refresh.asked[i].name : i \in {j \in DOMAIN refresh.asked : refresh.asked[j].ok}}

\* C21: a refresh calls ListTools on every registered client; a failure omits
\* that client's tools only; the catalog afterwards is the concatenation of the
\* tool lists of the clients that answered, each tool tagged with its client's
\* name, and the refresh reports no error.
C21_RefreshPartialFailure ==
    refresh.state = "done" =>
        /\ Len(AskedNames) = Cardinality(DOMAIN registry)
        /\ {AskedNames[i] : i \in DOMAIN AskedNames} = DOMAIN registry
        /\ mcpTools = RefreshedTools(AskedNames, ListedNames)
        /\ \A i \in DOMAIN mcpTools :
              /\ mcpTools[i].server \in ListedNames
              /\ clients[registry[mcpTools[i].server]].name = mcpTools[i].server
        /\ refresh.ret = "nil"

\* C21 happens: the first client asked failed to list its tools and the
\* second one's tools are in the catalog
C21_Witness ==
    /\ refresh.state = "done"
    /\ Len(refresh.asked) = 2
    /\ ~refresh.asked[1].ok
    /\ refresh.asked[2].ok
    /\ mcpTools = ServerTools(refresh.asked[2].name)

\* C22: while a refresh is at work an observer of the catalog sees the
\* complete previous snapshot (and the complete new one once it is done),
\* never an empty or partly built list.
C22_CatalogReplacedAtomically ==
    (refresh.state = "running" /\ refresh.todo # <<>>) => mcpTools = refresh.prev

\* C23: invokeMCPTool sends the call to the client registered under the owner
\* of the first catalog entry, in catalog order, with the tool's name, and to
\* no other client, also when that call fails; with no entry no client is called.
C23_FirstMatchWins ==
    regRet.op = "invoke" =>
        LET M == {i \in DOMAIN mcpTools : mcpTools[i].name = regRet.tool}
        IN  IF M = {}
            THEN /\ regRet.called = {}
                 /\ regRet.val = ToolErr(<<"tool_not_found", regRet.tool>>)
            ELSE \E i \in M :
                    /\ \A j \in M : i <= j
                    /\ regRet.called = {registry[mcpTools[i].server]}

\* C23 happens: two servers advertise the tool, the call to the first entry's
\* owner failed, and the second entry's owner was not tried
C23_Witness ==
    /\ regRet.op = "invoke"
    /\ \E i, j \in DOMAIN mcpTools :
          /\ i < j
          /\ mcpTools[i].name = regRet.tool
          /\ mcpTools[j].name = regRet.tool
          /\ mcpTools[i].server # mcpTools[j].server
          /\ regRet.called = {registry[mcpTools[i].server]}
    /\ ~regRet.val.ok

\* C25: on every client the program builds exactly one initialize is issued,
\* no tools/list or tools/call comes before its success, and none is ever
\* issued on a client whose initialize failed.
C25_InitializeOnceFirst ==
    \A i \in DOMAIN clients :
        /\ clients[i].inits = 1
        /\ ~clients[i].early
        /\ clients[i].used # {} => clients[i].initOk

\* C25 happens: one client was initialized, then listed and called, after a
\* reload too, and another one failed its initialize and was never used
C25_Witness ==
    /\ Len(clients) = 2
    /\ \E i, j \in DOMAIN clients :
          /\ clients[i].used = {MethodListTools, MethodCallTool}
          /\ clients[i].inits = 1
          /\ ~clients[j].initOk
          /\ clients[j].used = {}
    /\ refresh.by = "reload"
    /\ refresh.state = "done"

\* C24: on the stream and request transports a call whose context is cancelled
\* while it waits for the response returns, with a failure, without the
\* server's answer.
C24_CancelUnblocks ==
    \A t \in Threads :
        (kind \in {"ws", "http"} /\ tpc[t] = "read" /\ tcancel[t])
            ~> (tpc[t] = "idle")

\* C30: on the process transport a call that waits for its response holds the
\* client's lock and leaves the wait only by reading a line or the end of the
\* stream, whatever its context, and no Close() returns while it waits.
C30_StdioReadBlocks ==
    [][kind = "stdio" =>
         \A t \in Threads :
             tpc[t] = "read" =>
                 /\ mu = t
                 /\ tpc'[t] # "read" => tgot'[t].shape # "none"
                 /\ closeRet' = closeRet]_vars

\* C30 happens: a call on the process transport waits with its context
\* cancelled, holding the lock, and no Close() has returned
C30_Witness ==
    /\ kind = "stdio"
    /\ tpc[1] = "read"
    /\ tcancel[1]
    /\ mu = 1
    /\ tpc[2] = "idle"
    /\ closeRet = <<>>

C27_CacheConsultedFirst ==
    [][/\ turns' # turns =>
            LET key == GenerateCacheKey(turnMessages')
            IN  IF key \in DOMAIN cache
                THEN /\ turnOut' = OkOut(cache[key], TRUE)
                     /\ session' = Append(turnMessages', Msg("assistant", cache[key]))
                     /\ events' = <<>>
                     /\ started' = <<>>
                     /\ pc' = "idle"
                     /\ cache' = cache
                ELSE ~turnOut'.cached
       /\ (pc \in {"plain", "await", "followup"} /\ turnOut'.kind = "ok")
            => /\ ~turnOut'.cached
               /\ GenerateCacheKey(turnMessages) \in DOMAIN cache'
               /\ cache'[GenerateCacheKey(turnMessages)] = turnOut'.text]_vars

\* C27 happens: after /new-session the same first message is answered from
\* the cache, with no model call
C27_Witness ==
    /\ pc = "idle"
    /\ turns = 2
    /\ turnOut.kind = "ok"
    /\ turnOut.cached
    /\ events = <<>>
    /\ Len(session) = 2
    /\ session[2] = Msg("assistant", turnOut.text)
    /\ gen = 2

\* C28: in a run with one session, after the save on exit has succeeded,
\* loading the session by its id yields exactly the session's messages, each
\* once and in order.
C28_SaveLoadRoundTrip ==
    (phase = "exited" /\ progRet.run = "nil" /\ gen = 1)
        => loadSession(sid) = [err |-> "nil", messages |-> session]

\* C29: the shared session (the pointer, its id, its messages) is written
\* only by a goroutine holding cb.mu: never while a background save is
\* inside its critical section.
C29_SessionWritesLocked ==
    [][(session' # session \/ sid' # sid \/ gen' # gen) => cbmu = "free"]_vars

\* C31: the first Close() of a process-transport client marks the client
\* closed, closes the three pipes, kills the subprocess and reaps it, in
\* this order, the reap also after a failed kill; and once the closed flag
\* is set no request is written.
C31_CloseOrder ==
    [][kind = "stdio" =>
         /\ proc' # <<>> =>
               /\ closed'
               /\ Len(proc') = 6
               /\ proc'[1] = "closed"
               /\ {proc'[2], proc'[3], proc'[4]}
                      = {"stdin.Close", "stdout.Close", "stderr.Close"}
               /\ proc'[5] \in {"Kill", "Kill failed"}
               /\ proc'[6] = "Wait"
         /\ proc # <<>> => proc' = proc
         /\ closed => (issued' = issued /\ inflight' = inflight)
         /\ closed' => proc' # <<>>]_vars

\* C31 happens: the kill failed, the subprocess was reaped all the same,
\* and a call made afterwards was refused without a write
C31_Witness ==
    /\ kind = "stdio"
    /\ proc # <<>>
    /\ proc[5] = "Kill failed"
    /\ proc[6] = "Wait"
    /\ issued = <<1>>
    /\ \E t \in Threads : tafter[t] /\ tret[t].err = "client_closed"

\* C33: the stderr drain never holds the client's lock and an RPC never
\* waits for it: whatever the drain is doing, a call waiting for the lock
\* proceeds when no caller holds it and a call waiting for its response can
\* read it; and once Close() has closed the diagnostic stream the drain
\* ends.
C33_DrainIndependent ==
    /\ [](kind = "stdio" =>
             /\ mu \in {0} \cup Threads
             /\ \A t \in Threads :
                   /\ (tpc[t] = "lock" /\ mu \notin Threads) => ENABLED LockedSend(t)
                   /\ tpc[t] = "read" => ENABLED LockedRecv(t))
    /\ [][drain' # drain => UNCHANGED <<rpcVars, proc, broken>>]_vars
    /\ (kind = "stdio" /\ proc # <<>>) ~> (drain = "done")

\* C33 happens: a call is answered while the drain is busy logging a line
C33_Witness ==
    /\ kind = "stdio"
    /\ drain = "log"
    /\ \E t \in Threads : /\ tpc[t] = "idle"
                          /\ tret[t].status = "ok"
                          /\ tpc[3 - t] = "read"

C32_ConstructionReleases ==
    /\ \A i \in DOMAIN made :
          made[i].failAt # "none" =>
              /\ made[i].closedPipes = made[i].opened
              /\ ~made[i].client
              /\ ~made[i].drain
    /\ Cardinality({i \in DOMAIN clients : clients[i].transport = "stdio"})
          = Cardinality({i \in DOMAIN made : made[i].client})
    /\ \A i \in DOMAIN clients :
          (clients[i].inits > 0 /\ ~clients[i].initOk) =>
              /\ "startup" \in clients[i].closedBy
              /\ ~clients[i].registered
              /\ \A n \in DOMAIN registry : registry[n] # i

\* C32 happens: one construction failed at the third pipe with two pipes
\* open, and another client was built but failed to initialize
C32_Witness ==
    /\ phase = "running"
    /\ \E i \in DOMAIN made :
          /\ made[i].failAt = "stderr"
          /\ made[i].opened = {"stdin", "stdout"}
    /\ \E i \in DOMAIN clients :
          /\ clients[i].transport = "stdio"
          /\ clients[i].inits = 1
          /\ ~clients[i].initOk

\* C35: every tool of the catalog is owned by a name that is a key of the
\* registry, each client is registered under the name it reports, no entry
\* is ever removed, and invokeMCPTool never answers 'server not found'.
C35_CatalogRegistryConsistent ==
    /\ [](/\ \A i \in DOMAIN mcpTools : mcpTools[i].server \in DOMAIN registry
          /\ \A n \in DOMAIN registry : clients[registry[n]].name = n
          /\ regRet.op = "invoke" => regRet.val.val[1] # "server_not_found")
    /\ [][\A n \in DOMAIN registry : n \in DOMAIN registry']_vars

\* C35 happens: after startup and a /mcp-reload a tool of the catalog was
\* routed to its client
C35_Witness ==
    /\ refresh.by = "reload"
    /\ refresh.state = "done"
    /\ Len(mcpTools) > 1
    /\ regRet.op = "invoke"
    /\ regRet.val.ok
    /\ regRet.called # {}

\* client i was registered and its name has since been registered again
Replaced(i) ==
    /\ clients[i].registered
    /\ \A n \in DOMAIN registry : registry[n] # i

\* C36: a client whose name has been registered again is not closed by the
\* replacement, is no longer returned by Get or All, and is not closed by a
\* later ClientRegistry.Close().
C36_ReplacedNeverClosed ==
    [][\A i \in DOMAIN clients :
          Replaced(i)' =>
              /\ clients'[i].closedBy = clients[i].closedBy
              /\ regRet'.op = "Get" => regRet'.val # i
              /\ regRet'.op = "All" =>
                    \A k \in DOMAIN regRet'.val : regRet'.val[k] # i]_vars

\* C36 happens: ClientRegistry.Close() has closed the client registered
\* last under a name and left the one registered before it open
C36_Witness ==
    /\ regRet.op = "Close"
    /\ \E i, j \in DOMAIN clients :
          /\ i < j
          /\ clients[i].name = clients[j].name
          /\ Replaced(i)
          /\ clients[i].closedBy = {}
          /\ clients[j].closedBy = {"registry"}

\* C37: a turn appends the user message first; when it succeeds, from the
\* cache or from the backend after any number of tool rounds, it appends
\* exactly one assistant message with the final text and nothing else; when
\* it fails the session keeps the user message and gains no assistant
\* message; the catalog and the registry are left as they were.
C37_TurnEffectOnSession ==
    [][/\ turns' # turns =>
             /\ \E u \in Inputs : turnMessages' = Append(session, Msg("user", u))
             /\ turnOut'.kind = "none" => session' = turnMessages'
       /\ (InTurn /\ pc' # "idle") => session' = session
       /\ ((InTurn \/ turns' # turns) /\ pc' = "idle") =>
             /\ turnOut'.kind \in {"ok", "err"}
             /\ IF turnOut'.kind = "ok"
                THEN session' = Append(turnMessages', Msg("assistant", turnOut'.text))
                ELSE session' = turnMessages'
       /\ (InTurn \/ turns' # turns) =>
             (mcpTools' = mcpTools /\ registry' = registry)]_vars

\* C37 happens: a turn with two tool rounds has succeeded and the session
\* holds the user message and the final answer only
C37_Witness ==
    /\ pc = "idle"
    /\ turns = 1
    /\ turnOut.kind = "ok"
    /\ Len(rounds) = 2
    /\ Len(messages) > Len(turnMessages)
    /\ session = <<Msg("user", "hi"), Msg("assistant", turnOut.text)>>

\* the roles and contents of a conversation, in order, and nothing else
RECURSIVE RolesAndContents(_)
RolesAndContents(msgs) ==
    IF msgs = <<>> THEN <<>>
    ELSE <<Head(msgs).role, Head(msgs).content>> \o RolesAndContents(Tail(msgs))

\* C38: the cache key of a turn is determined by the roles and contents of
\* its conversation alone, so a conversation that was answered before is
\* answered from the cache with the stored response, whatever the backend
\* selected now, the session or the catalog.
C38_KeyFromRolesAndContents ==
    /\ [](turns > 0 => cacheKey = RolesAndContents(turnMessages))
    /\ [][turns' # turns =>
            LET conv == RolesAndContents(turnMessages')
            IN  conv \in DOMAIN cache
                    => turnOut' = OkOut(cache[conv], TRUE)]_vars

\* C38 happens: after /new-session and /switch the tool-capable backend is
\* selected and the same first message is answered from the cache with the
\* answer the other backend gave
C38_Witness ==
    /\ backend = BackendAnthropic
    /\ configBackend # BackendAnthropic
    /\ gen = 2
    /\ pc = "idle"
    /\ turnOut = OkOut("plain answer", TRUE)
    /\ session = <<Msg("user", "hi"), Msg("assistant", "plain answer")>>

====
